---- MODULE Spec2Model ----
(***************************************************************************)
(* Project Synapse: the TTL result cache (utils/cache.py, CacheManager)    *)
(* and the orchestrator that sits on it (core/agent.py, SynapseAgent).     *)
(*                                                                         *)
(* Python values are records tagged by "type".  A cache key is a sequence  *)
(* of tokens (<<"tags:", "a">> is the string "tags:a"), so that the prefix *)
(* test, the f-string and fnmatch of the source can be computed.  The      *)
(* clock `now` is time.time() in whole seconds; a handler runs at one      *)
(* instant of it.                                                          *)
(***************************************************************************)
EXTENDS Integers, Sequences, FiniteSets, TLC

VARIABLES
    cache,                \* CacheManager.cache: insertion-ordered dict, a sequence of [k, v]
    expiry_times,         \* CacheManager.expiry_times: key -> <<>> (None) or <<t>>
    access_times,         \* CacheManager.access_times: key -> t
    stats,                \* CacheManager.stats
    now,                  \* time.time()
    performance_metrics,  \* SynapseAgent.performance_metrics
    returned,             \* text -> the Solution solve_disruption last returned for it
    last,                 \* the most recent call: [op, arg, ret] and [pre], what it found
    threads,              \* simultaneous callers: each one's position inside its call
    prediction_engine,    \* SynapseAgent.prediction_engine: the PredictionEngine's fields
    profit_metrics        \* SynapseAgent.profit_optimizer.profit_metrics

vars == <<cache, expiry_times, access_times, stats, now, performance_metrics, returned, last,
          threads, prediction_engine, profit_metrics>>

-----------------------------------------------------------------------------
(* Bounds of the model *)

MaxTime == 2        \* seconds the clock may advance second by second
MaxHours == 1       \* whole TTL periods the clock may jump
MaxSets == 2        \* cap on stats.sets
MaxGets == 1        \* cap on stats.hits + stats.misses
MaxScenarios == 2   \* cap on the cache probes of the agent

(* Program constants *)

DefaultTTL == 3600      \* set(..., ttl=3600), set_with_tags(..., ttl=3600)
SolutionTTL == 3600     \* _cache_solution: ttl=3600

-----------------------------------------------------------------------------
(* Python values *)

PyNone == [type |-> "NoneType"]
PyBool(b) == [type |-> "bool", b |-> b]
PyInt(n) == [type |-> "int", n |-> n]
PyStr(s) == [type |-> "str", s |-> s]
PyList(items) == [type |-> "list", items |-> items]
PyDatetime(d) == [type |-> "datetime", d |-> d]
\* an instance of a user class: str() works when printable, json.dumps never does
PyObject(name, printable) == [type |-> "object", name |-> name, printable |-> printable]
Raised(exc) == [type |-> "raise", exc |-> exc]

\* bool(value), for the values the model stores
Truthy(v) ==
    CASE v.type = "NoneType" -> FALSE
      [] v.type = "bool" -> v.b
      [] v.type = "int" -> v.n # 0
      [] v.type = "str" -> v.s # ""
      [] v.type = "list" -> v.items # <<>>
      [] OTHER -> TRUE

\* str(value): the text, or a raise when __str__ itself fails
StrOf(v) ==
    CASE v.type = "str" -> v
      [] v.type = "object" -> IF v.printable THEN PyStr("<" \o v.name \o " object>")
                              ELSE Raised("ValueError")
      [] v.type = "datetime" -> PyStr(v.d \o " 00:00:00")
      [] OTHER -> PyStr("repr")

\* datetime.isoformat()
IsoFormat(v) == PyStr(v.d \o "T00:00:00")

-----------------------------------------------------------------------------
(* The insertion-ordered dict self.cache *)

DictKeys(d) == {d[i].k : i \in DOMAIN d}
DictKeyList(d) == [i \in DOMAIN d |-> d[i].k]
DictGet(d, key) == d[CHOOSE i \in DOMAIN d : d[i].k = key].v
\* an assignment that leaves a key already present alone
DictSetKeepsFirst(d, key, value) ==
    IF key \in DictKeys(d) THEN d ELSE Append(d, [k |-> key, v |-> value])

DictSet(d, key, value) ==
    IF key \in DictKeys(d)
    THEN [i \in DOMAIN d |-> IF d[i].k = key THEN [k |-> key, v |-> value] ELSE d[i]]
    ELSE Append(d, [k |-> key, v |-> value])
DictDel(d, key) == SelectSeq(d, LAMBDA e : e.k # key)

\* a plain dict (expiry_times, access_times) as a function
MapSet(f, key, value) == [x \in DOMAIN f \cup {key} |-> IF x = key THEN value ELSE f[x]]
MapDel(f, key) == [x \in DOMAIN f \ {key} |-> f[x]]

NoExpiry == <<>>
ExpiresAt(t) == <<t>>

-----------------------------------------------------------------------------
(* CacheManager, as functions of the manager's fields                     *)
(* cm = [cache, expiry_times, access_times, stats]; each returns          *)
(* [cm |-> the fields afterwards, ret |-> the value returned]             *)

EmptyStats == [hits |-> 0, misses |-> 0, sets |-> 0, deletes |-> 0]

NewCacheManager ==
    [cache |-> <<>>, expiry_times |-> <<>>, access_times |-> <<>>, stats |-> EmptyStats]

Bump(cm, counter) == [cm EXCEPT !.stats[counter] = @ + 1]

\* _json_serializer: the default= hook of json.dumps
JsonSerializer(obj) ==
    IF obj.type = "datetime" THEN IsoFormat(obj) ELSE Raised("TypeError")

\* json.dumps(value, default=self._json_serializer): the JSON text, written as the
\* value json.loads gives back for it
JsonDumps(value) ==
    IF value.type \in {"datetime", "object"}
    THEN LET r == JsonSerializer(value)
         IN IF r.type = "raise" THEN r ELSE [type |-> "json", doc |-> r]
    ELSE [type |-> "json", doc |-> value]

\* _serialize_value
SerializeValue(value) ==
    LET first == JsonDumps(value)
    IN IF first.type # "raise" THEN first
       ELSE LET s == StrOf(value)
            IN IF s.type = "raise" THEN s ELSE JsonDumps(s)

\* _deserialize_value
DeserializeValue(serialized_value) == serialized_value.doc

\* _is_expired
IsExpired(cm, key, t) ==
    IF key \notin DOMAIN cm.expiry_times THEN FALSE
    ELSE LET expiry_time == cm.expiry_times[key]
         IN IF expiry_time = NoExpiry THEN FALSE ELSE t > expiry_time[1]

\* the expiry, with ttl = 0 taken for a time to live
ExpiryForZeroIsTtl(ttl, t) == IF ttl >= 0 THEN ExpiresAt(t + ttl) ELSE NoExpiry

\* the expiry written by set and expire
ExpiryFor(ttl, t) == IF ttl > 0 THEN ExpiresAt(t + ttl) ELSE NoExpiry

\* set, keeping the expiry a stored key already has
CacheSetKeepsExpiry(cm, key, value, ttl, t) ==
    LET serialized_value == SerializeValue(value)
    IN IF serialized_value.type = "raise"
       THEN [cm |-> cm, ret |-> PyBool(FALSE)]
       ELSE [cm |-> Bump([cm EXCEPT
                            !.cache = DictSet(@, key, serialized_value),
                            !.expiry_times = IF key \in DOMAIN @ THEN @
                                             ELSE MapSet(@, key, ExpiryFor(ttl, t)),
                            !.access_times = MapSet(@, key, t)], "sets"),
             ret |-> PyBool(TRUE)]

\* set
CacheSet(cm, key, value, ttl, t) ==
    LET serialized_value == SerializeValue(value)
    IN IF serialized_value.type = "raise"
       THEN [cm |-> cm, ret |-> PyBool(FALSE)]
       ELSE [cm |-> Bump([cm EXCEPT
                            !.cache = DictSet(@, key, serialized_value),
                            !.expiry_times = MapSet(@, key, ExpiryFor(ttl, t)),
                            !.access_times = MapSet(@, key, t)], "sets"),
             ret |-> PyBool(TRUE)]

\* delete, with the del of the access time forgotten
CacheDeleteKeepsAccessTime(cm, key) ==
    IF key \notin DictKeys(cm.cache) THEN [cm |-> cm, ret |-> PyBool(FALSE)]
    ELSE [cm |-> Bump([cm EXCEPT !.cache = DictDel(@, key),
                                 !.expiry_times = MapDel(@, key)], "deletes"),
          ret |-> PyBool(TRUE)]

\* delete: the three del statements run in order; a KeyError in one of them is
\* caught and leaves the earlier ones done
CacheDelete(cm, key) ==
    IF key \notin DictKeys(cm.cache) THEN [cm |-> cm, ret |-> PyBool(FALSE)]
    ELSE LET c1 == [cm EXCEPT !.cache = DictDel(@, key)]
         IN IF key \notin DOMAIN cm.expiry_times THEN [cm |-> c1, ret |-> PyBool(FALSE)]
            ELSE LET c2 == [c1 EXCEPT !.expiry_times = MapDel(@, key)]
                 IN IF key \notin DOMAIN cm.access_times
                    THEN [cm |-> c2, ret |-> PyBool(FALSE)]
                    ELSE [cm |-> Bump([c2 EXCEPT !.access_times = MapDel(@, key)], "deletes"),
                          ret |-> PyBool(TRUE)]

\* get, with the eviction of the expired entry forgotten
CacheGetKeepsExpired(cm, key, t) ==
    IF key \notin DictKeys(cm.cache) \/ IsExpired(cm, key, t)
    THEN [cm |-> Bump(cm, "misses"), ret |-> PyNone]
    ELSE [cm |-> Bump([cm EXCEPT !.access_times = MapSet(@, key, t)], "hits"),
          ret |-> DeserializeValue(DictGet(cm.cache, key))]

\* get, with a hit renewing the entry's default lifetime
CacheGetRenewsExpiry(cm, key, t) ==
    IF key \notin DictKeys(cm.cache)
    THEN [cm |-> Bump(cm, "misses"), ret |-> PyNone]
    ELSE IF IsExpired(cm, key, t)
    THEN [cm |-> Bump(CacheDelete(cm, key).cm, "misses"), ret |-> PyNone]
    ELSE [cm |-> Bump([cm EXCEPT !.access_times = MapSet(@, key, t),
                                 !.expiry_times = MapSet(@, key, ExpiresAt(t + 3600))],
                      "hits"),
          ret |-> DeserializeValue(DictGet(cm.cache, key))]

\* get
CacheGet(cm, key, t) ==
    IF key \notin DictKeys(cm.cache)
    THEN [cm |-> Bump(cm, "misses"), ret |-> PyNone]
    ELSE IF IsExpired(cm, key, t)
    THEN [cm |-> Bump(CacheDelete(cm, key).cm, "misses"), ret |-> PyNone]
    ELSE [cm |-> Bump([cm EXCEPT !.access_times = MapSet(@, key, t)], "hits"),
          ret |-> DeserializeValue(DictGet(cm.cache, key))]

\* exists, counting a miss when it answers False
CacheExistsCountsMiss(cm, key, t) ==
    IF key \notin DictKeys(cm.cache) THEN [cm |-> Bump(cm, "misses"), ret |-> PyBool(FALSE)]
    ELSE IF IsExpired(cm, key, t)
    THEN [cm |-> Bump(CacheDelete(cm, key).cm, "misses"), ret |-> PyBool(FALSE)]
    ELSE [cm |-> cm, ret |-> PyBool(TRUE)]

\* exists
CacheExists(cm, key, t) ==
    IF key \notin DictKeys(cm.cache) THEN [cm |-> cm, ret |-> PyBool(FALSE)]
    ELSE IF IsExpired(cm, key, t)
    THEN [cm |-> CacheDelete(cm, key).cm, ret |-> PyBool(FALSE)]
    ELSE [cm |-> cm, ret |-> PyBool(TRUE)]

\* expire
CacheExpire(cm, key, ttl, t) ==
    IF key \notin DictKeys(cm.cache) THEN [cm |-> cm, ret |-> PyBool(FALSE)]
    ELSE [cm |-> [cm EXCEPT !.expiry_times = MapSet(@, key, ExpiryFor(ttl, t))],
          ret |-> PyBool(TRUE)]

\* ttl
CacheTtl(cm, key, t) ==
    IF key \notin DictKeys(cm.cache) THEN [cm |-> cm, ret |-> PyInt(-2)]
    ELSE IF cm.expiry_times[key] = NoExpiry THEN [cm |-> cm, ret |-> PyInt(-1)]
    ELSE LET remaining == cm.expiry_times[key][1] - t
         IN [cm |-> cm, ret |-> PyInt(IF remaining > 0 THEN remaining ELSE 0)]

\* clear, zeroing the statistics as well
CacheClearResetsStats(cm) ==
    [cm |-> [cm EXCEPT !.cache = <<>>, !.expiry_times = <<>>, !.access_times = <<>>,
                       !.stats = EmptyStats],
     ret |-> PyBool(TRUE)]

\* clear
CacheClear(cm) ==
    [cm |-> [cm EXCEPT !.cache = <<>>, !.expiry_times = <<>>, !.access_times = <<>>],
     ret |-> PyBool(TRUE)]

\* _cleanup_expired: collect the keys whose expiry is set, truthy and past, then
\* delete each
CleanupDue(cm, t) ==
    {key \in DOMAIN cm.expiry_times :
        LET expiry_time == cm.expiry_times[key]
        IN expiry_time # NoExpiry /\ expiry_time[1] # 0 /\ t > expiry_time[1]}

RECURSIVE DeleteEach(_, _)
DeleteEach(cm, key_list) ==
    IF key_list = <<>> THEN cm
    ELSE DeleteEach(CacheDelete(cm, Head(key_list)).cm, Tail(key_list))

\* the keys of a dict in iteration order, as far as the order can matter: the stored
\* keys in insertion order, then keys that only the expiry map holds
RECURSIVE SetToSeq(_)
SetToSeq(S) == IF S = {} THEN <<>> ELSE LET x == CHOOSE x \in S : TRUE
                                         IN <<x>> \o SetToSeq(S \ {x})

CleanupExpired(cm, t) ==
    LET due == CleanupDue(cm, t)
        expired_keys == SelectSeq(DictKeyList(cm.cache), LAMBDA key : key \in due)
                            \o SetToSeq(due \ DictKeys(cm.cache))
    IN DeleteEach(cm, expired_keys)

\* size
CacheSize(cm, t) ==
    LET c1 == CleanupExpired(cm, t) IN [cm |-> c1, ret |-> PyInt(Len(c1.cache))]

\* round(hits / total_requests * 100, 2), in hundredths of a percent
HitRate(st) ==
    LET total_requests == st.hits + st.misses
    IN IF total_requests > 0
       THEN (2 * st.hits * 10000 + total_requests) \div (2 * total_requests)
       ELSE 0

\* info (the memory estimate, which depends on the interpreter, is left out)
CacheInfo(cm, t) ==
    LET c1 == CleanupExpired(cm, t)
    IN [cm |-> c1,
        ret |-> [type |-> "dict",
                 size |-> Len(c1.cache),
                 total_keys |-> Len(c1.cache),
                 expired_keys |-> Cardinality({key \in DOMAIN c1.expiry_times :
                     LET k == c1.expiry_times[key]
                     IN k # NoExpiry /\ k[1] # 0 /\ k[1] < t}),
                 hits |-> c1.stats.hits,
                 misses |-> c1.stats.misses,
                 sets |-> c1.stats.sets,
                 deletes |-> c1.stats.deletes,
                 hit_rate_percent |-> HitRate(c1.stats),
                 uptime_seconds |-> 0]]

\* get_stats
CacheGetStats(cm) == [cm |-> cm, ret |-> [type |-> "dict", stats |-> cm.stats]]

\* reset_stats
CacheResetStats(cm) == [cm |-> [cm EXCEPT !.stats = EmptyStats], ret |-> PyNone]

\* get_all_keys
CacheGetAllKeys(cm, t) ==
    LET all == DictKeyList(cm.cache)
        expired_keys == SelectSeq(all, LAMBDA key : IsExpired(cm, key, t))
        valid_keys == SelectSeq(all, LAMBDA key : ~IsExpired(cm, key, t))
    IN [cm |-> DeleteEach(cm, expired_keys), ret |-> PyList(valid_keys)]

\* fnmatch.fnmatch(key, pattern), token by token; "*" is the only wildcard modelled
RECURSIVE FnMatch(_, _)
FnMatch(key, pattern) ==
    IF pattern = <<>> THEN key = <<>>
    ELSE IF Head(pattern) = "*"
    THEN FnMatch(key, Tail(pattern)) \/ (key # <<>> /\ FnMatch(Tail(key), pattern))
    ELSE key # <<>> /\ Head(key) = Head(pattern) /\ FnMatch(Tail(key), Tail(pattern))

\* keys: `for key in self.cache.keys()` over the live dict.  `rest` is what the
\* iterator has left and `used` the dict's size when the iterator was made: the
\* iterator's next step raises RuntimeError once the size differs from it, also
\* when nothing is left to yield.  Only ImportError is caught.
RECURSIVE KeysLoop(_, _, _, _, _, _)
KeysLoop(cm, rest, used, pattern, t, matching_keys) ==
    IF Len(cm.cache) # used THEN [cm |-> cm, ret |-> Raised("RuntimeError")]
    ELSE IF rest = <<>> THEN [cm |-> cm, ret |-> PyList(matching_keys)]
    ELSE LET key == Head(rest)
         IN IF FnMatch(key, pattern)
            THEN IF ~IsExpired(cm, key, t)
                 THEN KeysLoop(cm, Tail(rest), used, pattern, t, Append(matching_keys, key))
                 ELSE KeysLoop(CacheDelete(cm, key).cm, Tail(rest), used, pattern, t,
                               matching_keys)
            ELSE KeysLoop(cm, Tail(rest), used, pattern, t, matching_keys)

CacheKeys(cm, pattern, t) ==
    KeysLoop(cm, DictKeyList(cm.cache), Len(cm.cache), pattern, t, <<>>)

\* f"tags:{key}" and key.startswith("tags:")
TagKey(key) == <<"tags:">> \o key
StartsWithTags(key) == key # <<>> /\ Head(key) = "tags:"

\* `x in container` for a list
PyIn(x, container) == \E i \in DOMAIN container.items : container.items[i] = x

\* set_with_tags
CacheSetWithTags(cm, key, value, tags, ttl, t) ==
    LET first == CacheSet(cm, key, value, ttl, t)
    IN IF first.ret.b
       THEN [cm |-> CacheSet(first.cm, TagKey(key), PyList(tags), ttl, t).cm, ret |-> first.ret]
       ELSE first

\* get_by_tag: iterates the live dict like keys
RECURSIVE GetByTagLoop(_, _, _, _, _, _)
GetByTagLoop(cm, rest, used, tag, t, tagged_values) ==
    IF Len(cm.cache) # used THEN [cm |-> cm, ret |-> Raised("RuntimeError")]
    ELSE IF rest = <<>> THEN [cm |-> cm, ret |-> PyList(tagged_values)]
    ELSE LET key == Head(rest)
             tag_key == TagKey(key)
         IN IF StartsWithTags(key)
            THEN GetByTagLoop(cm, Tail(rest), used, tag, t, tagged_values)
            ELSE IF tag_key \in DictKeys(cm.cache)
            THEN LET g1 == CacheGet(cm, tag_key, t)
                     tags == g1.ret
                 IN IF Truthy(tags) /\ PyIn(tag, tags)
                    THEN LET g2 == CacheGet(g1.cm, key, t)
                             value == g2.ret
                         IN GetByTagLoop(g2.cm, Tail(rest), used, tag, t,
                                IF value # PyNone THEN Append(tagged_values, value)
                                ELSE tagged_values)
                    ELSE GetByTagLoop(g1.cm, Tail(rest), used, tag, t, tagged_values)
            ELSE GetByTagLoop(cm, Tail(rest), used, tag, t, tagged_values)

CacheGetByTag(cm, tag, t) ==
    GetByTagLoop(cm, DictKeyList(cm.cache), Len(cm.cache), tag, t, <<>>)

\* the loop of delete_by_tag without `self.delete(tag_key)`
RECURSIVE DeleteByTagLoopKeepsShadow(_, _, _, _, _)
DeleteByTagLoopKeepsShadow(cm, rest, tag, t, deleted_count) ==
    IF rest = <<>> THEN [cm |-> cm, ret |-> PyInt(deleted_count)]
    ELSE LET key == Head(rest)
             tag_key == TagKey(key)
         IN IF StartsWithTags(key)
            THEN DeleteByTagLoopKeepsShadow(cm, Tail(rest), tag, t, deleted_count)
            ELSE IF tag_key \in DictKeys(cm.cache)
            THEN LET g1 == CacheGet(cm, tag_key, t)
                     tags == g1.ret
                 IN IF Truthy(tags) /\ PyIn(tag, tags)
                    THEN LET d1 == CacheDelete(g1.cm, key)
                         IN DeleteByTagLoopKeepsShadow(d1.cm, Tail(rest), tag, t,
                                IF d1.ret.b THEN deleted_count + 1 ELSE deleted_count)
                    ELSE DeleteByTagLoopKeepsShadow(g1.cm, Tail(rest), tag, t, deleted_count)
            ELSE DeleteByTagLoopKeepsShadow(cm, Tail(rest), tag, t, deleted_count)

\* delete_by_tag: iterates list(self.cache.keys()), a snapshot
RECURSIVE DeleteByTagLoop(_, _, _, _, _)
DeleteByTagLoop(cm, rest, tag, t, deleted_count) ==
    IF rest = <<>> THEN [cm |-> cm, ret |-> PyInt(deleted_count)]
    ELSE LET key == Head(rest)
             tag_key == TagKey(key)
         IN IF StartsWithTags(key)
            THEN DeleteByTagLoop(cm, Tail(rest), tag, t, deleted_count)
            ELSE IF tag_key \in DictKeys(cm.cache)
            THEN LET g1 == CacheGet(cm, tag_key, t)
                     tags == g1.ret
                 IN IF Truthy(tags) /\ PyIn(tag, tags)
                    THEN LET d1 == CacheDelete(g1.cm, key)
                             d2 == CacheDelete(d1.cm, tag_key)
                         IN DeleteByTagLoop(d2.cm, Tail(rest), tag, t,
                                IF d1.ret.b THEN deleted_count + 1 ELSE deleted_count)
                    ELSE DeleteByTagLoop(g1.cm, Tail(rest), tag, t, deleted_count)
            ELSE DeleteByTagLoop(cm, Tail(rest), tag, t, deleted_count)

CacheDeleteByTag(cm, tag, t) == DeleteByTagLoop(cm, DictKeyList(cm.cache), tag, t, 0)

-----------------------------------------------------------------------------
(* SynapseAgent *)

BlankTexts == {"", "   "}
ScenarioTexts == {"Major accident on Highway 1 affects 5 active deliveries",
                  "Customer angry about cold food delivery"}

\* the demo catalogue of get_demo_scenarios (main.py); run_demo_scenario hands the
\* description of the id it is given to solve_disruption
DemoScenarios ==
    <<[id |-> "traffic_jam",
       description |-> "Major accident on Highway 1 affects 5 active deliveries",
       type |-> "traffic_disruption"],
      [id |-> "customer_complaint",
       description |-> "Customer angry about cold food delivery",
       type |-> "customer_issue"],
      [id |-> "multimodal",
       description |-> "Driver reports traffic, but GPS shows clear",
       type |-> "driver_wellbeing"]>>

DemoTexts == {DemoScenarios[i].description : i \in DOMAIN DemoScenarios}

\* text.strip()
Strip(text) == IF text \in BlankTexts THEN "" ELSE text

\* texts that exercise the keyword tests of the classifier
ClassifierTexts ==
    {"Driver reports stress after TRAFFIC jam",
     "Driver voice sounds strained",
     "Heavy rain and storm expected",
     "Angry customer waiting in the rain",
     "Package lost at warehouse",
     "Training new staff today"}

\* texts that exercise the estimate of the affected deliveries: with and without
\* digits, with and without its keywords
EstimateTexts ==
    {"Road closed, 0 deliveries affected",
     "12 parcels missing from van 3",
     "Multiple orders stuck at depot",
     "Single package damaged",
     "Phone order cancelled"}

\* hashlib.md5(input_text.encode()).hexdigest()[:8]
Md5Hex8(text) ==
    CASE text = "" -> "d41d8cd9"
      [] text = "   " -> "628631f0"
      [] text = "Major accident on Highway 1 affects 5 active deliveries" -> "0a30e4ac"
      [] text = "Customer angry about cold food delivery" -> "fce46bf1"
      [] text = "Driver reports stress after TRAFFIC jam" -> "41c25fbb"
      [] text = "Driver voice sounds strained" -> "8e7105c5"
      [] text = "Heavy rain and storm expected" -> "de626d41"
      [] text = "Angry customer waiting in the rain" -> "a3b3ef8c"
      [] text = "Package lost at warehouse" -> "5ef95ef8"
      [] text = "Training new staff today" -> "0ffb83ea"
      [] text = "Road closed, 0 deliveries affected" -> "21bd323a"
      [] text = "12 parcels missing from van 3" -> "eedba6e5"
      [] text = "Multiple orders stuck at depot" -> "eef6202d"
      [] text = "Single package damaged" -> "575b78e0"
      [] text = "Phone order cancelled" -> "40db3416"
      [] text = "Driver reports traffic, but GPS shows clear" -> "c61c21d5"

\* the keywords w for which `w in text.lower()` holds (a substring test)
KeywordsIn(text) ==
    CASE text = "" -> {}
      [] text = "   " -> {}
      [] text = "Major accident on Highway 1 affects 5 active deliveries" ->
            {"accident", "major", "highway"}
      [] text = "Customer angry about cold food delivery" -> {"angry", "cold", "food"}
      [] text = "Driver reports stress after TRAFFIC jam" ->
            {"traffic", "jam", "driver", "stress"}
      [] text = "Driver voice sounds strained" -> {"driver", "voice", "rain"}
      [] text = "Heavy rain and storm expected" -> {"rain", "storm"}
      [] text = "Angry customer waiting in the rain" -> {"angry", "rain"}
      [] text = "Package lost at warehouse" -> {}
      [] text = "Training new staff today" -> {"rain"}
      [] text = "Road closed, 0 deliveries affected" -> {"road"}
      [] text = "12 parcels missing from van 3" -> {}
      [] text = "Multiple orders stuck at depot" -> {"multiple"}
      [] text = "Single package damaged" -> {"single"}
      [] text = "Phone order cancelled" -> {"one"}
      [] text = "Driver reports traffic, but GPS shows clear" -> {"driver", "traffic"}

\* any(word in text_lower for word in words)
AnyWordIn(words, text) == KeywordsIn(text) \cap words # {}

TrafficWords == {"traffic", "accident", "jam", "road"}
CustomerWords == {"complaint", "angry", "cold", "food"}
DriverWords == {"driver", "voice", "stress"}
WeatherWords == {"weather", "rain", "storm"}

\* the classifier with the driver test ahead of the others
ClassifyScenarioDriverFirst(input_text) ==
    IF AnyWordIn(DriverWords, input_text) THEN "driver_wellbeing"
    ELSE IF AnyWordIn(TrafficWords, input_text) THEN "traffic_disruption"
    ELSE IF AnyWordIn(CustomerWords, input_text) THEN "customer_issue"
    ELSE IF AnyWordIn(WeatherWords, input_text) THEN "environmental"
    ELSE "general_disruption"

\* _classify_scenario
ClassifyScenario(input_text) ==
    IF AnyWordIn(TrafficWords, input_text) THEN "traffic_disruption"
    ELSE IF AnyWordIn(CustomerWords, input_text) THEN "customer_issue"
    ELSE IF AnyWordIn(DriverWords, input_text) THEN "driver_wellbeing"
    ELSE IF AnyWordIn(WeatherWords, input_text) THEN "environmental"
    ELSE "general_disruption"

\* re.findall(r'\d+', input_text): the runs of digits of the text, in order, each a
\* sequence of digits
FindallDigits(text) ==
    CASE text = "Major accident on Highway 1 affects 5 active deliveries" -> <<<<1>>, <<5>>>>
      [] text = "Road closed, 0 deliveries affected" -> <<<<0>>>>
      [] text = "12 parcels missing from van 3" -> <<<<1, 2>>, <<3>>>>
      [] OTHER -> <<>>

\* int(s) of a run of digits
RECURSIVE IntOf(_)
IntOf(digits) ==
    IF digits = <<>> THEN 0
    ELSE 10 * IntOf(SubSeq(digits, 1, Len(digits) - 1)) + digits[Len(digits)]

\* np.random.randint(low, high) at the draw r: one of low .. high - 1
RandInt(low, high, r) == low + (r % (high - low))

\* _estimate_affected_deliveries
EstimateAffectedDeliveries(input_text, r) ==
    LET numbers == FindallDigits(input_text)
    IN IF numbers # <<>> THEN IntOf(numbers[1])
       ELSE IF AnyWordIn({"major", "highway", "multiple"}, input_text)
       THEN RandInt(3, 8, r)
       ELSE IF AnyWordIn({"single", "one", "individual"}, input_text) THEN 1
       ELSE RandInt(1, 4, r)

\* _create_scenario, as far as the cache and the result depend on it
CreateScenario(input_text) ==
    [id |-> Md5Hex8(input_text), description |-> input_text, raw_input |-> input_text,
     scenario_type |-> ClassifyScenario(input_text)]

\* the Scenario of _create_scenario with its affected_deliveries, r being the draw
\* of the estimate
ScenarioOf(input_text, r) ==
    [id |-> Md5Hex8(input_text), description |-> input_text, raw_input |-> input_text,
     scenario_type |-> ClassifyScenario(input_text),
     affected_deliveries |-> EstimateAffectedDeliveries(input_text, r)]

\* f"scenario_{scenario.id}"
ScenarioKey(scenario) == <<"scenario_", scenario.id>>

\* random.uniform(lo, hi) at the draw u: 0 gives lo, 1 gives hi
Uniform(lo, hi, u) == lo + u * (hi - lo)

\* a candidate dict; confidence and execution_time are in hundredths
Candidate(approach, actions, predicted_profit, confidence) ==
    [approach |-> approach, actions |-> actions, predicted_profit |-> predicted_profit,
     confidence |-> confidence, execution_time |-> 30]

\* _generate_base_solution
GenerateBaseSolution ==
    Candidate("standard", <<"investigate", "notify", "monitor">>, 0, 70)

\* _generate_customer_solutions
GenerateCustomerSolutions(u) ==
    <<Candidate("premium_customer",
                <<"compensation", "priority_status", "personal_apology", "future_discount">>,
                Uniform(60, 120, u[1]), 90),
      Candidate("retention_focused",
                <<"modest_compensation", "loyalty_points", "quality_assurance">>,
                Uniform(40, 80, u[2]), 85)>>

\* _generate_traffic_solutions
GenerateTrafficSolutions(u) ==
    <<Candidate("proactive_rerouting",
                <<"predict_traffic", "optimize_routes", "notify_drivers", "adjust_etas">>,
                Uniform(50, 100, u[1]), 90),
      Candidate("fleet_optimization",
                <<"reposition_fleet", "batch_deliveries", "dynamic_pricing">>,
                Uniform(30, 70, u[2]), 80)>>

\* _generate_driver_solutions
GenerateDriverSolutions(u) ==
    <<Candidate("driver_support",
                <<"emotional_support", "technical_assistance", "incentive_bonus",
                  "training_opportunity">>,
                Uniform(45, 85, u[1]), 85),
      Candidate("team_collaboration",
                <<"peer_support", "shared_responsibility", "recognition">>,
                Uniform(35, 65, u[2]), 80)>>

\* _generate_general_solutions
GenerateGeneralSolutions(u) ==
    <<Candidate("innovation_focused",
                <<"creative_solution", "partnership", "technology_upgrade",
                  "process_improvement">>,
                Uniform(40, 90, u[1]), 75)>>

\* candidate generation with no branch for the other scenario types
GenerateSolutionCandidatesKnownTypes(scenario_type, u) ==
    <<GenerateBaseSolution>> \o
        (IF scenario_type = "customer_issue" THEN GenerateCustomerSolutions(u)
         ELSE IF scenario_type = "traffic_disruption" THEN GenerateTrafficSolutions(u)
         ELSE IF scenario_type = "driver_wellbeing" THEN GenerateDriverSolutions(u)
         ELSE <<>>)

\* _generate_solution_candidates
GenerateSolutionCandidates(scenario_type, u) ==
    <<GenerateBaseSolution>> \o
        (IF scenario_type = "customer_issue" THEN GenerateCustomerSolutions(u)
         ELSE IF scenario_type = "traffic_disruption" THEN GenerateTrafficSolutions(u)
         ELSE IF scenario_type = "driver_wellbeing" THEN GenerateDriverSolutions(u)
         ELSE GenerateGeneralSolutions(u))

\* d.get(field, default)
GetOr(d, field, default) == IF field \in DOMAIN d THEN d[field] ELSE default

\* the dict {}
EmptyDict == [x \in {} |-> 0]

\* base_cost of _calculate_operational_costs, in dollars
BaseCost == 10

\* action_costs of _calculate_operational_costs, in dollars
ActionCosts ==
    [compensation |-> 15, priority_status |-> 5, personal_apology |-> 8,
     future_discount |-> 20, loyalty_points |-> 12, quality_assurance |-> 6,
     incentive_bonus |-> 25, training_opportunity |-> 15, technology_upgrade |-> 30,
     process_improvement |-> 18]

\* the loop over solution.get('actions', []) that adds up the costs of the action
\* types found in action_costs
RECURSIVE TotalActionCost(_)
TotalActionCost(actions) ==
    IF actions = <<>> THEN 0
    ELSE (IF Head(actions) \in DOMAIN ActionCosts THEN ActionCosts[Head(actions)] ELSE 0)
            + TotalActionCost(Tail(actions))

\* operational costs that are the scaled fees alone, without the base cost
CalculateOperationalCostsWithoutBase(solution, affected_deliveries) ==
    TotalActionCost(IF "actions" \in DOMAIN solution THEN solution.actions ELSE <<>>)
        * (IF affected_deliveries > 1 THEN affected_deliveries ELSE 1)

\* operational costs with the base cost scaled as well
CalculateOperationalCostsScalesBase(solution, affected_deliveries) ==
    (10 + TotalActionCost(IF "actions" \in DOMAIN solution THEN solution.actions ELSE <<>>))
        * (IF affected_deliveries > 1 THEN affected_deliveries ELSE 1)

\* operational costs scaled by affected_deliveries itself, without max(1, ...)
CalculateOperationalCostsUnfloored(solution, affected_deliveries) ==
    10 + TotalActionCost(IF "actions" \in DOMAIN solution THEN solution.actions ELSE <<>>)
            * affected_deliveries

\* _calculate_operational_costs
CalculateOperationalCosts(solution, affected_deliveries) ==
    LET total_action_cost == TotalActionCost(GetOr(solution, "actions", <<>>))
        delivery_multiplier == IF affected_deliveries > 1 THEN affected_deliveries ELSE 1
    IN BaseCost + (total_action_cost * delivery_multiplier)

\* The amounts of a ROI analysis are in 365ths of a dollar, which keeps the
\* 30-day projections `/ 365 * 30` exact; multipliers are in tenths.
Dollars(n) == 365 * n

\* (base * multiplier - base) / 365 * 30
MonthlyImpact(base, multiplier) == ((base * multiplier - base * 10) * 30) \div 10

\* _get_customer_ltv_impact; v[1] and v[2] are the draws of base_ltv and
\* ltv_multiplier
GetCustomerLtvImpact(solution, v) ==
    LET base_ltv == Uniform(200, 800, v[1])
        approach == GetOr(solution, "approach", "standard")
        ltv_multiplier ==
            IF approach = "premium_customer" THEN Uniform(13, 18, v[2])
            ELSE IF approach = "retention_focused" THEN Uniform(12, 15, v[2])
            ELSE IF approach = "driver_support" THEN Uniform(11, 14, v[2])
            ELSE Uniform(10, 13, v[2])
    IN MonthlyImpact(base_ltv, ltv_multiplier)

\* _assess_brand_impact; v[3] and v[4] are the draws of base_brand_value and
\* brand_multiplier
AssessBrandImpact(solution, v) ==
    LET base_brand_value == Uniform(50, 150, v[3])
        approach == GetOr(solution, "approach", "standard")
        brand_multiplier ==
            IF approach \in {"premium_customer", "driver_support"}
            THEN Uniform(14, 19, v[4])
            ELSE IF approach \in {"retention_focused", "proactive_rerouting"}
            THEN Uniform(12, 16, v[4])
            ELSE Uniform(10, 13, v[4])
    IN MonthlyImpact(base_brand_value, brand_multiplier)

\* float('inf')
PyInf == [type |-> "float", inf |-> TRUE]

\* a finite number of days, in hundredths, rounded down
PyDays(hundredths) == [type |-> "float", inf |-> FALSE, hundredths |-> hundredths]

\* a payback period without the cap of one year
CalculatePaybackPeriodUncapped(total_cost, monthly_profit) ==
    IF monthly_profit <= 0 THEN PyInf
    ELSE PyDays((total_cost * 30 * 100) \div monthly_profit)

\* _calculate_payback_period
CalculatePaybackPeriod(total_cost, monthly_profit) ==
    IF monthly_profit <= 0 THEN PyInf
    ELSE LET payback_days == (total_cost * 30 * 100) \div monthly_profit
         IN PyDays(IF payback_days < 36500 THEN payback_days ELSE 36500)

\* a ROI that is reported as the ratio itself
RoiPercentageUnscaled(roi) == roi

\* 'roi_percentage': roi * 100
RoiPercentage(roi) == roi * 100

\* roi = (total_profit - total_cost) / max(total_cost, 1) if total_cost > 0 else
\* total_profit, in thousandths, rounded down
Roi(total_profit, total_cost) ==
    IF total_cost > 0
    THEN (1000 * (total_profit - total_cost))
            \div (IF total_cost > Dollars(1) THEN total_cost ELSE Dollars(1))
    ELSE (1000 * total_profit) \div Dollars(1)

\* _calculate_roi; v holds the draws of the customer and brand values
CalculateRoi(solution, scenario, v) ==
    LET customer_ltv == GetCustomerLtvImpact(solution, v)
        operational_costs ==
            Dollars(CalculateOperationalCosts(solution, scenario.affected_deliveries))
        brand_impact == AssessBrandImpact(solution, v)
        immediate_profit == Dollars(GetOr(solution, "predicted_profit", 0))
        long_term_profit == customer_ltv + brand_impact
        total_profit == immediate_profit + long_term_profit
        total_cost == operational_costs
        roi == Roi(total_profit, total_cost)
    IN [total_cost |-> total_cost,
        total_profit |-> total_profit,
        operational_costs |-> operational_costs,
        brand_impact |-> brand_impact,
        immediate_profit |-> immediate_profit,
        long_term_profit |-> long_term_profit,
        customer_ltv_impact |-> customer_ltv,
        roi_percentage |-> RoiPercentage(roi),
        payback_period_days |-> CalculatePaybackPeriod(total_cost, long_term_profit)]

\* candidate['roi_analysis'] = roi_analysis
WithRoiAnalysis(candidate, roi_analysis) ==
    [field \in DOMAIN candidate \cup {"roi_analysis"} |->
        IF field = "roi_analysis" THEN roi_analysis ELSE candidate[field]]

\* the evaluation loop of optimize; v[i] holds the draws of the i-th evaluation
EvaluateCandidates(candidates, scenario, v) ==
    [i \in DOMAIN candidates |->
        WithRoiAnalysis(candidates[i], CalculateRoi(candidates[i], scenario, v[i]))]

\* a candidate evaluated to a given ROI (in thousandths of a percent)
WithRoi(candidate, roi_percentage) ==
    [field \in DOMAIN candidate \cup {"roi_analysis"} |->
        IF field = "roi_analysis" THEN [roi_percentage |-> roi_percentage]
        ELSE candidate[field]]

\* candidates evaluated to given ROIs
Evaluate(candidates, rois) ==
    [i \in DOMAIN candidates |-> WithRoi(candidates[i], rois[i])]

\* the sort key x.get('roi_analysis', {}).get('roi_percentage', 0)
RoiKey(x) == GetOr(GetOr(x, "roi_analysis", EmptyDict), "roi_percentage", 0)

\* a descending insertion that puts an element ahead of the elements equal to it
RECURSIVE InsertAheadOfTies(_, _)
InsertAheadOfTies(sorted, x) ==
    IF sorted = <<>> THEN <<x>>
    ELSE IF RoiKey(Head(sorted)) > RoiKey(x)
         THEN <<Head(sorted)>> \o InsertAheadOfTies(Tail(sorted), x)
         ELSE <<x>> \o sorted

RECURSIVE SortAheadOfTies(_, _)
SortAheadOfTies(sorted, rest) ==
    IF rest = <<>> THEN sorted
    ELSE SortAheadOfTies(InsertAheadOfTies(sorted, Head(rest)), Tail(rest))

\* a selector whose sort is not stable
SelectBestSolutionUnstable(candidates) ==
    IF candidates = <<>> THEN EmptyDict
    ELSE Head(SortAheadOfTies(<<>>, candidates))

\* sorted(..., reverse=True) is stable: equal keys keep their order
RECURSIVE InsertDescending(_, _)
InsertDescending(sorted, x) ==
    IF sorted = <<>> THEN <<x>>
    ELSE IF RoiKey(Head(sorted)) >= RoiKey(x)
         THEN <<Head(sorted)>> \o InsertDescending(Tail(sorted), x)
         ELSE <<x>> \o sorted

RECURSIVE SortedDescending(_, _)
SortedDescending(sorted, rest) ==
    IF rest = <<>> THEN sorted
    ELSE SortedDescending(InsertDescending(sorted, Head(rest)), Tail(rest))

\* _select_best_solution
SelectBestSolution(candidates) ==
    IF candidates = <<>> THEN EmptyDict
    ELSE Head(SortedDescending(<<>>, candidates))

\* optimize: generate, evaluate, select
Optimize(scenario, draw) ==
    SelectBestSolution(
        EvaluateCandidates(GenerateSolutionCandidates(scenario.scenario_type, draw.u),
                           scenario, draw.v))

LowValues == <<0, 0, 0, 0>>

\* ProfitOptimizer.__init__: self.profit_metrics. Amounts are in 365ths of a dollar,
\* a ROI in thousandths of a percent. The optimization_history list, which
\* _record_optimization appends to and no modelled operation reads, is left out.
NewProfitMetrics ==
    [total_profit_generated |-> 0, average_roi |-> 0, successful_optimizations |-> 0,
     total_optimizations |-> 0]

\* an _update_optimization_metrics that counts only the profitable optimizations
UpdateOptimizationMetricsCountsProfitable(om, solution) ==
    LET roi_analysis == GetOr(solution, "roi_analysis", EmptyDict)
        new_roi == GetOr(roi_analysis, "roi_percentage", 0)
        profitable == IF new_roi > 0 THEN 1 ELSE 0
        total_opt == om.total_optimizations + profitable
    IN [total_profit_generated |->
            om.total_profit_generated + GetOr(roi_analysis, "total_profit", 0),
        average_roi |-> IF total_opt = 0 THEN 0
                        ELSE (om.average_roi * om.total_optimizations + new_roi)
                                 \div total_opt,
        successful_optimizations |-> om.successful_optimizations + profitable,
        total_optimizations |-> total_opt]

\* _update_optimization_metrics; the average is rounded down
UpdateOptimizationMetrics(om, solution) ==
    LET roi_analysis == GetOr(solution, "roi_analysis", EmptyDict)
        new_roi == GetOr(roi_analysis, "roi_percentage", 0)
        total_opt == om.total_optimizations + 1
    IN [total_profit_generated |->
            om.total_profit_generated + GetOr(roi_analysis, "total_profit", 0),
        average_roi |-> (om.average_roi * (total_opt - 1) + new_roi) \div total_opt,
        successful_optimizations |->
            om.successful_optimizations + (IF new_roi > 0 THEN 1 ELSE 0),
        total_optimizations |-> total_opt]

\* the random draws of one optimize call: the uniform variates u of the profits
\* and, for each candidate, the variates v of its customer and brand values
AgentDraws ==
    {[u |-> <<1, 1>>, v |-> <<LowValues, LowValues, LowValues>>],
     [u |-> <<0, 1>>, v |-> <<LowValues, LowValues, LowValues>>],
     [u |-> <<1, 0>>, v |-> <<LowValues, LowValues, LowValues>>]}

\* the draws of the estimate of the affected deliveries in an agent call
AgentRandInts == {0, 2}

\* the types _classify_scenario gives, and one it never gives
ScenarioTypes ==
    {"traffic_disruption", "customer_issue", "driver_wellbeing", "environmental",
     "general_disruption", "unknown_type"}

\* what profit_optimizer.optimize can return, by scenario text
OptimizeTable ==
    [text \in BlankTexts \cup ScenarioTexts |->
        {Optimize(ScenarioOf(text, r), draw) : r \in AgentRandInts, draw \in AgentDraws}]

\* what profit_optimizer.optimize can return for the scenario of a text
OptimizeResults(text) == OptimizeTable[text]

\* the reasoning collaborator: absent (self.llm is None), answering, or present
\* with its model call failing (generate_content raises or answers nothing)
LlmModes == {"none", "ok", "error"}

\* multimodal_processor.analyze_scenario: returns a context or raises
AnalyzeOutcomes == {"context", "raise"}

DefaultReasoning == "Solution optimized for maximum profit."
DefaultOptions == <<"route_change", "customer_service">>

\* a to_dict that leaves the profit out
ToDictZeroProfit(solution) ==
    [type |-> "dict",
     id |-> solution.id,
     scenario_id |-> solution.scenario_id,
     actions |-> solution.actions,
     predicted_profit |-> 0,
     confidence |-> solution.confidence,
     reasoning |-> solution.reasoning,
     execution_time |-> solution.execution_time,
     cache_hit |-> solution.cache_hit,
     interactive_options |-> solution.interactive_options]

\* Solution.to_dict
ToDict(solution) ==
    [type |-> "dict",
     id |-> solution.id,
     scenario_id |-> solution.scenario_id,
     actions |-> solution.actions,
     predicted_profit |-> solution.predicted_profit,
     confidence |-> solution.confidence,
     reasoning |-> solution.reasoning,
     execution_time |-> solution.execution_time,
     cache_hit |-> solution.cache_hit,
     interactive_options |-> solution.interactive_options]

\* Solution(**cached_data): a TypeError unless cached_data is a mapping
SolutionFromDict(cached_data) ==
    IF cached_data.type # "dict" THEN Raised("TypeError")
    ELSE [cached_data EXCEPT !.type = "Solution"]

ClientFallbackText ==
    "I recommend rerouting the driver to avoid the disruption. This minimizes delays and maintains customer satisfaction while ensuring timely delivery."

\* GeminiClient.generate_concise_logistics_solution: the model's text, or the
\* client's own fixed text when the call raises or the response is empty
GenerateConciseLogisticsSolution(llm) ==
    IF llm = "ok" THEN "generated explanation" ELSE ClientFallbackText

\* GeminiClient.generate_interactive_options: chosen by keyword, without the model
GenerateInteractiveOptions(scenario_text) ==
    LET options ==
            IF AnyWordIn({"traffic", "accident", "jam", "road"}, scenario_text)
            THEN <<"reroute_alternative", "notify_customers", "emergency_protocol">>
            ELSE IF AnyWordIn({"complaint", "angry", "cold", "food"}, scenario_text)
            THEN <<"offer_compensation", "replacement_order", "escalate_manager">>
            ELSE IF AnyWordIn({"driver", "unwell", "sick", "replacement"}, scenario_text)
            THEN <<"show_live_map", "reroute_best_path", "backup_driver">>
            ELSE IF AnyWordIn({"weather", "rain", "storm", "delay"}, scenario_text)
            THEN <<"weather_protocol", "weather_updates", "protected_routes">>
            ELSE <<"implement_solution", "get_details", "escalate">>
        padded == IF Len(options) < 2
                  THEN options \o SubSeq(DefaultOptions, 1, 2 - Len(options))
                  ELSE options
    IN SubSeq(padded, 1, IF Len(padded) < 3 THEN Len(padded) ELSE 3)

\* an _execute_with_reasoning that gives no options when the client is absent
ExecuteWithReasoningNoDefaults(scenario, solution, llm, t) ==
    [type |-> "Solution",
     id |-> <<"sol_", scenario.id, t>>,
     scenario_id |-> scenario.id,
     actions |-> IF "actions" \in DOMAIN solution THEN solution.actions ELSE <<>>,
     predicted_profit |-> IF "predicted_profit" \in DOMAIN solution
                          THEN solution.predicted_profit ELSE 0,
     confidence |-> IF "confidence" \in DOMAIN solution THEN solution.confidence ELSE 80,
     reasoning |-> "Solution optimized for maximum profit.",
     execution_time |-> 0,
     cache_hit |-> FALSE,
     interactive_options |-> IF llm \in {"none", "raise"} THEN <<>>
                             ELSE <<"implement_solution", "get_details", "escalate">>]

\* _execute_with_reasoning; llm = "raise" is a client whose call raises into the
\* agent, which GeminiClient, catching everything itself, never does
ExecuteWithReasoning(scenario, solution, llm, t) ==
    LET answered == llm \notin {"none", "raise"}
    IN [type |-> "Solution",
        id |-> <<"sol_", scenario.id, t>>,
        scenario_id |-> scenario.id,
        actions |-> GetOr(solution, "actions", <<>>),
        predicted_profit |-> GetOr(solution, "predicted_profit", 0),
        confidence |-> GetOr(solution, "confidence", 80),
        reasoning |-> IF answered THEN GenerateConciseLogisticsSolution(llm)
                      ELSE DefaultReasoning,
        execution_time |-> 0,
        cache_hit |-> FALSE,
        interactive_options |-> IF answered
                                THEN GenerateInteractiveOptions(scenario.description)
                                ELSE DefaultOptions]

\* an _update_metrics whose improvement has no upper limit
UpdateMetricsUncapped(pm, solution, cache_hit) ==
    [total_scenarios |-> pm.total_scenarios + 1,
     cache_hits |-> IF cache_hit THEN pm.cache_hits + 1 ELSE pm.cache_hits,
     average_response_time |->
         (pm.average_response_time * pm.total_scenarios + solution.execution_time)
             \div (pm.total_scenarios + 1),
     total_profit_generated |-> pm.total_profit_generated + solution.predicted_profit,
     accuracy_rate |-> 850 + pm.total_scenarios + 1]

\* an _update_metrics that counts every resolution as a cache hit
UpdateMetricsCountsEveryHit(pm, solution, cache_hit) ==
    [total_scenarios |-> pm.total_scenarios + 1,
     cache_hits |-> pm.cache_hits + 1,
     average_response_time |->
         (pm.average_response_time * pm.total_scenarios + solution.execution_time)
             \div (pm.total_scenarios + 1),
     total_profit_generated |-> pm.total_profit_generated + solution.predicted_profit,
     accuracy_rate |-> 850 + (IF pm.total_scenarios + 1 < 150
                              THEN pm.total_scenarios + 1 ELSE 150)]

\* _update_metrics; accuracy_rate is in thousandths
UpdateMetrics(pm, solution, cache_hit) ==
    LET total_scenarios == pm.total_scenarios + 1
        improvement_factor == IF total_scenarios < 150 THEN total_scenarios ELSE 150
    IN [total_scenarios |-> total_scenarios,
        cache_hits |-> IF cache_hit THEN pm.cache_hits + 1 ELSE pm.cache_hits,
        average_response_time |->
            (pm.average_response_time * (total_scenarios - 1) + solution.execution_time)
                \div total_scenarios,
        total_profit_generated |-> pm.total_profit_generated + solution.predicted_profit,
        accuracy_rate |-> 850 + improvement_factor]

NewPerformanceMetrics ==
    [total_scenarios |-> 0, cache_hits |-> 0, average_response_time |-> 0,
     total_profit_generated |-> 0, accuracy_rate |-> 0]

\* solve_disruption: [cm, pm, om, ret], om the optimizer's profit_metrics, ret the
\* Solution or the exception that leaves it; best is what optimize returns
SolveDisruptionResult(cm, pm, om, scenario_input, analysis, best, llm, t) ==
    LET scenario == CreateScenario(scenario_input)
        probe == CacheGet(cm, ScenarioKey(scenario), t)
        cached_data == probe.ret
    IN IF Truthy(cached_data)
       THEN LET rebuilt == SolutionFromDict(cached_data)
            IN IF rebuilt.type = "raise"
               THEN [cm |-> probe.cm, pm |-> pm, om |-> om, ret |-> rebuilt]
               ELSE LET cached_solution ==
                            [rebuilt EXCEPT !.cache_hit = TRUE, !.execution_time = 0]
                    IN [cm |-> probe.cm,
                        pm |-> UpdateMetrics(pm, cached_solution, TRUE),
                        om |-> om,
                        ret |-> cached_solution]
       ELSE IF analysis = "raise"
       THEN [cm |-> probe.cm, pm |-> pm, om |-> om, ret |-> Raised("Exception")]
       ELSE LET final_solution == ExecuteWithReasoning(scenario, best, llm, t)
                stored == CacheSet(probe.cm, ScenarioKey(scenario),
                                   ToDict(final_solution), SolutionTTL, t)
            IN [cm |-> stored.cm,
                pm |-> UpdateMetrics(pm, final_solution, FALSE),
                om |-> UpdateOptimizationMetrics(om, best),
                ret |-> final_solution]

-----------------------------------------------------------------------------
(* PredictionEngine (core/prediction.py). A probability is in              *)
(* hundred-thousandths, a probability_base and a severity in hundredths, a  *)
(* factor in tenths, a coordinate is its offset from the city centre in     *)
(* ten-thousandths of a degree.                                             *)

\* _initialize_problem_patterns, in the order of the dict
ProblemTypes ==
    <<"traffic_jam", "weather_disruption", "driver_issue", "merchant_problem",
      "customer_complaint">>

ProblemPatterns ==
    [traffic_jam |-> [probability_base |-> 30, severity_range |-> <<40, 90>>,
                      horizon_range |-> <<15, 45>>],
     weather_disruption |-> [probability_base |-> 20, severity_range |-> <<30, 80>>,
                             horizon_range |-> <<30, 120>>],
     driver_issue |-> [probability_base |-> 15, severity_range |-> <<50, 90>>,
                       horizon_range |-> <<5, 30>>],
     merchant_problem |-> [probability_base |-> 25, severity_range |-> <<30, 70>>,
                           horizon_range |-> <<10, 60>>],
     customer_complaint |-> [probability_base |-> 10, severity_range |-> <<60, 100>>,
                             horizon_range |-> <<0, 15>>]]

\* PredictionEngine.__init__; prediction_accuracy is in ten-thousandths
NewPredictionEngine ==
    [prediction_cache |-> <<>>, active_predictions |-> <<>>, prediction_accuracy |-> 8500,
     total_predictions |-> 0, successful_predictions |-> 0]

\* _get_weather_factor on the reading of api_simulator.predict_weather
GetWeatherFactor(weather_data) ==
    IF weather_data.current_condition \in {"rain", "storm", "snow"} THEN 15
    ELSE IF weather_data.current_condition = "clear" THEN 8
    ELSE 10

\* _get_time_factor at datetime.now().hour
GetTimeFactor(current_hour) ==
    IF (7 <= current_hour /\ current_hour <= 9) \/ (17 <= current_hour /\ current_hour <= 19)
    THEN 14
    ELSE IF 11 <= current_hour /\ current_hour <= 14 THEN 12
    ELSE 10

Abs(x) == IF x < 0 THEN -x ELSE x

\* _get_location_factor
GetLocationFactor(location) ==
    IF Abs(location.lat) < 50 /\ Abs(location.lng) < 50 THEN 13 ELSE 10

\* _calculate_problem_probability: weather is what the probe gave, a reading or an
\* exception; noise is the draw of random.uniform(-0.1, 0.1)
CalculateProblemProbability(delivery, pattern, weather, current_hour, noise) ==
    IF weather.type = "raise" THEN weather
    ELSE LET adjusted_probability ==
                 pattern.probability_base * GetWeatherFactor(weather)
                     * GetTimeFactor(current_hour) * GetLocationFactor(delivery.location)
                 + noise
         IN [type |-> "float",
             value |-> IF adjusted_probability < 0 THEN 0
                       ELSE IF adjusted_probability > 100000 THEN 100000
                       ELSE adjusted_probability]

\* _get_affected_area
GetAffectedArea(delivery, problem_type) ==
    IF problem_type = "traffic_jam"
    THEN <<"Area around ", delivery.location.lat, delivery.location.lng>>
    ELSE IF problem_type = "weather_disruption"
    THEN <<"Weather zone covering ", delivery.location.lat, delivery.location.lng>>
    ELSE <<"Local area near delivery ", delivery.id[1], delivery.id[2]>>

\* random.randint(a, b) at the draw r: one of a .. b
RandomRandint(a, b, r) == a + (r % (b - a + 1))

\* PredictedProblem.__init__: id is f"pred_{int(time.time())}_{random.randint(1000, 9999)}"
PredictedProblem(problem_type, probability, horizon_minutes, affected_area, severity, id_draw, t) ==
    [id |-> <<"pred_", t, RandomRandint(1000, 9999, id_draw)>>, solution |-> PyNone,
     problem_type |-> problem_type, probability |-> probability,
     horizon_minutes |-> horizon_minutes, affected_area |-> affected_area,
     severity |-> severity, timestamp |-> t]

\* _predict_problems_for_delivery from pattern i on: draw holds what the probes and
\* the random module give for this delivery, ids the draws of the problem ids still
\* unused. Gives the exception of a probe, or the problems and the ids left.
RECURSIVE PredictProblemsLoop(_, _, _, _, _, _)
PredictProblemsLoop(delivery, draw, i, ids, problems, t) ==
    IF i > Len(ProblemTypes) THEN [type |-> "list", items |-> problems, ids |-> ids]
    ELSE LET problem_type == ProblemTypes[i]
             pattern == ProblemPatterns[problem_type]
             probability == CalculateProblemProbability(delivery, pattern, draw.weather,
                                                        draw.hour, draw.noise)
         IN IF probability.type = "raise" THEN probability
            ELSE IF probability.value > 10000
            THEN PredictProblemsLoop(delivery, draw, i + 1, Tail(ids),
                     Append(problems,
                            PredictedProblem(problem_type, probability.value,
                                RandomRandint(pattern.horizon_range[1],
                                              pattern.horizon_range[2], draw.u),
                                GetAffectedArea(delivery, problem_type),
                                Uniform(pattern.severity_range[1],
                                        pattern.severity_range[2], draw.u),
                                Head(ids), t)),
                     t)
            ELSE PredictProblemsLoop(delivery, draw, i + 1, ids, problems, t)

PredictProblemsForDelivery(delivery, draw, ids, t) ==
    PredictProblemsLoop(delivery, draw, 1, ids, <<>>, t)

\* a pre-computed solution dict; confidence and execution_time are in hundredths
Precomputed(actions, predicted_profit, confidence) ==
    [actions |-> actions, predicted_profit |-> predicted_profit,
     confidence |-> confidence, execution_time |-> 30]

\* _precompute_solution and the _generate_*_solution it dispatches to; none of them
\* can raise, so the handler that returns None is never entered
PrecomputeSolution(problem, u) ==
    IF problem.problem_type = "traffic_jam"
    THEN Precomputed(<<"reroute", "notify_driver", "update_eta">>, Uniform(20, 60, u), 90)
    ELSE IF problem.problem_type = "weather_disruption"
    THEN Precomputed(<<"delay_delivery", "notify_customer", "adjust_route">>,
                     Uniform(15, 45, u), 85)
    ELSE IF problem.problem_type = "driver_issue"
    THEN Precomputed(<<"support_driver", "reassign_delivery", "extend_time">>,
                     Uniform(25, 55, u), 80)
    ELSE IF problem.problem_type = "merchant_problem"
    THEN Precomputed(<<"contact_merchant", "adjust_menu", "notify_customer">>,
                     Uniform(30, 70, u), 90)
    ELSE IF problem.problem_type = "customer_complaint"
    THEN Precomputed(<<"compensation", "priority_status", "follow_up">>,
                     Uniform(40, 80, u), 95)
    ELSE Precomputed(<<"investigate", "notify_stakeholders", "monitor">>,
                     Uniform(20, 50, u), 70)

PredictionTTL == 7200       \* _cache_prediction: timedelta(hours=2)

PredictionKey(problem_id) == <<"pred_">> \o problem_id

\* _cache_prediction
CachePrediction(prediction_cache, problem, solution, t) ==
    MapSet(prediction_cache, PredictionKey(problem.id),
           [solution |-> solution, timestamp |-> t, problem |-> problem,
            expires_at |-> t + PredictionTTL])

\* the inner loop of continuous_prediction over the problems of one delivery
RECURSIVE CacheProblems(_, _, _, _)
CacheProblems(prediction_cache, problems, u, t) ==
    IF problems = <<>> THEN prediction_cache
    ELSE LET problem == Head(problems)
             solution == PrecomputeSolution(problem, u)
         IN CacheProblems(IF problem.probability > 30000
                          THEN CachePrediction(prediction_cache, problem, solution, t)
                          ELSE prediction_cache,
                          Tail(problems), u, t)

\* _update_prediction_accuracy
UpdatePredictionAccuracy(engine) ==
    LET improvement_factor ==
            IF engine.total_predictions < 1500 THEN engine.total_predictions ELSE 1500
    IN [engine EXCEPT !.prediction_accuracy = 8500 + improvement_factor]

\* continuous_prediction from delivery i on: one try block holds the loop over the
\* deliveries and the accuracy update, and its handler prints the exception
RECURSIVE ContinuousPredictionLoop(_, _, _, _, _, _)
ContinuousPredictionLoop(engine, active_deliveries, draws, i, ids, t) ==
    IF i > Len(active_deliveries)
    THEN [engine |-> UpdatePredictionAccuracy(engine), analysed |-> i - 1,
          printed |-> PyNone]
    ELSE LET problems == PredictProblemsForDelivery(active_deliveries[i], draws[i], ids, t)
         IN IF problems.type = "raise"
            THEN [engine |-> engine, analysed |-> i - 1,
                  printed |-> PyStr("Prediction engine error")]
            ELSE ContinuousPredictionLoop(
                     [engine EXCEPT !.prediction_cache =
                          CacheProblems(@, problems.items, draws[i].u, t)],
                     active_deliveries, draws, i + 1, problems.ids, t)

ContinuousPrediction(engine, active_deliveries, draws, ids, t) ==
    ContinuousPredictionLoop(engine, active_deliveries, draws, 1, ids, t)

\* get_cached_solution
GetCachedSolution(engine, problem_id, t) ==
    LET cache_key == PredictionKey(problem_id)
        stored == cache_key \in DOMAIN engine.prediction_cache
    IN IF stored /\ engine.prediction_cache[cache_key].expires_at > t
       THEN [engine |-> engine,
             ret |-> [type |-> "dict", d |-> engine.prediction_cache[cache_key].solution]]
       ELSE [engine |-> IF stored
                        THEN [engine EXCEPT !.prediction_cache = MapDel(@, cache_key)]
                        ELSE engine,
             ret |-> PyNone]

-----------------------------------------------------------------------------
(* Inputs *)

PrimaryKeys == {<<"a">>, <<"b">>}
AllKeys == PrimaryKeys \cup {TagKey(key) : key \in PrimaryKeys}
JsonValues == {PyStr("v1"), PyStr("v2")}
ObjectValues == {PyObject("O", TRUE), PyObject("U", FALSE)}
TaggedValues == {PyStr("v1")}
TTLs == {-1, 0, 1}
Tags == {"t1", "t2"}
TagLists == {<<"t1">>, <<"t1", "t2">>}
Patterns == {<<"*">>, <<"a">>}
TagPatterns == {<<"*">>, <<"tags:", "*">>}

-----------------------------------------------------------------------------
(* State *)

CM == [cache |-> cache, expiry_times |-> expiry_times,
       access_times |-> access_times, stats |-> stats]

\* what a call finds when it starts: the dict's size and the counters
Pre == [size |-> Len(cache), stats |-> stats]

NoCall == [op |-> "init", arg |-> [none |-> TRUE], ret |-> PyNone,
           pre |-> [size |-> 0, stats |-> EmptyStats]]

\* the callers that share one CacheManager and one SynapseAgent
Callers == {1, 2}

\* what a caller has completed so far: set calls that returned True, get calls,
\* entries taken out of self.cache, solve_disruption calls that returned a Solution
\* and those of them that returned it with cache_hit
NoTally == [sets |-> 0, gets |-> 0, removed |-> 0, solved |-> 0, solved_hits |-> 0]

\* a caller between two calls. stack: the methods it is inside, outermost first;
\* key, value, ttl: the arguments of the cache method it is inside; counter, reg:
\* the counter an augmented assignment is updating and the value it loaded;
\* solution, current_avg, total_scenarios: locals of solve_disruption and
\* _update_metrics; written, latest: what its last store into self.cache was and
\* whether no store under that key came after it
IdleThread ==
    [pc |-> "idle", stack |-> <<>>, key |-> <<>>, value |-> PyNone, ttl |-> 0,
     counter |-> "", reg |-> 0, ret |-> PyNone, calls |-> 0,
     text |-> "", solution |-> PyNone, current_avg |-> 0, total_scenarios |-> 0,
     written |-> <<>>, latest |-> FALSE, tally |-> NoTally]

Init ==
    /\ cache = NewCacheManager.cache
    /\ expiry_times = NewCacheManager.expiry_times
    /\ access_times = NewCacheManager.access_times
    /\ stats = NewCacheManager.stats
    /\ now = 0
    /\ performance_metrics = NewPerformanceMetrics
    /\ returned = <<>>
    /\ last = NoCall
    /\ threads = [c \in Callers |-> IdleThread]
    /\ prediction_engine = NewPredictionEngine
    /\ profit_metrics = NewProfitMetrics

\* a call on the cache manager alone: r is what the method computed
CacheCall(op, arg, r) ==
    /\ cache' = r.cm.cache
    /\ expiry_times' = r.cm.expiry_times
    /\ access_times' = r.cm.access_times
    /\ stats' = r.cm.stats
    /\ last' = [op |-> op, arg |-> arg, ret |-> r.ret, pre |-> Pre]
    /\ UNCHANGED <<now, performance_metrics, returned, threads, prediction_engine,
                   profit_metrics>>

CanSet == stats.sets < MaxSets
CanGet == stats.hits + stats.misses < MaxGets
\* set_with_tags counts two sets
CanSetWithTags == stats.sets + 2 <= 2 * MaxSets

Set(values) ==
    \E key \in PrimaryKeys, value \in values, ttl \in TTLs :
        /\ CanSet
        /\ CacheCall("set", [key |-> key, value |-> value, ttl |-> ttl],
                     CacheSet(CM, key, value, ttl, now))

Get(keys) ==
    \E key \in keys :
        /\ CanGet
        /\ CacheCall("get", [key |-> key], CacheGet(CM, key, now))

\* agent.cache_manager.get called on the key of a scenario, as the cache probe of
\* solve_disruption is
Probe(keys) ==
    \E key \in keys :
        /\ stats.hits + stats.misses < MaxScenarios + MaxGets
        /\ CacheCall("get", [key |-> key], CacheGet(CM, key, now))

Delete(keys) ==
    \E key \in keys : CacheCall("delete", [key |-> key], CacheDelete(CM, key))

Exists(keys) ==
    \E key \in keys : CacheCall("exists", [key |-> key], CacheExists(CM, key, now))

Expire(keys) ==
    \E key \in keys, ttl \in TTLs :
        CacheCall("expire", [key |-> key, ttl |-> ttl], CacheExpire(CM, key, ttl, now))

Ttl(keys) ==
    \E key \in keys : CacheCall("ttl", [key |-> key], CacheTtl(CM, key, now))

Keys(patterns) ==
    \E pattern \in patterns :
        CacheCall("keys", [pattern |-> pattern], CacheKeys(CM, pattern, now))

GetAllKeys == CacheCall("get_all_keys", [none |-> TRUE], CacheGetAllKeys(CM, now))

Clear == CacheCall("clear", [none |-> TRUE], CacheClear(CM))

Size == CacheCall("size", [none |-> TRUE], CacheSize(CM, now))

Info == CacheCall("info", [none |-> TRUE], CacheInfo(CM, now))

GetStats == CacheCall("get_stats", [none |-> TRUE], CacheGetStats(CM))

ResetStats == CacheCall("reset_stats", [none |-> TRUE], CacheResetStats(CM))

SetWithTags ==
    \E key \in PrimaryKeys, value \in TaggedValues, tags \in TagLists, ttl \in TTLs :
        /\ CanSetWithTags
        /\ CacheCall("set_with_tags",
                     [key |-> key, value |-> value, tags |-> tags, ttl |-> ttl],
                     CacheSetWithTags(CM, key, value, tags, ttl, now))

GetByTag ==
    \E tag \in Tags :
        /\ CanGet
        /\ CacheCall("get_by_tag", [tag |-> tag], CacheGetByTag(CM, tag, now))

DeleteByTag ==
    \E tag \in Tags :
        /\ CanGet
        /\ CacheCall("delete_by_tag", [tag |-> tag], CacheDeleteByTag(CM, tag, now))

\* a second passes
TickSecond ==
    /\ now % SolutionTTL < MaxTime
    /\ now' = now + 1
    /\ UNCHANGED <<cache, expiry_times, access_times, stats, performance_metrics,
                   returned, last, threads, prediction_engine, profit_metrics>>

\* a whole TTL period passes
TickHour ==
    /\ now \div SolutionTTL < MaxHours
    /\ now' = now + SolutionTTL
    /\ UNCHANGED <<cache, expiry_times, access_times, stats, performance_metrics,
                   returned, last, threads, prediction_engine, profit_metrics>>

-----------------------------------------------------------------------------
(* The agent's entry points *)

CanSolve == stats.hits + stats.misses < MaxScenarios

\* a call of the agent: r is what solve_disruption computed, ret what the caller gets
AgentCall(op, text, r, ret) ==
    /\ cache' = r.cm.cache
    /\ expiry_times' = r.cm.expiry_times
    /\ access_times' = r.cm.access_times
    /\ stats' = r.cm.stats
    /\ performance_metrics' = r.pm
    /\ returned' = IF r.ret.type = "Solution" THEN MapSet(returned, text, r.ret)
                   ELSE returned
    /\ profit_metrics' = r.om
    /\ last' = [op |-> op, arg |-> [text |-> text], ret |-> ret, pre |-> Pre]
    /\ UNCHANGED <<now, threads, prediction_engine>>

\* SynapseAgent.solve_disruption called directly
SolveDisruption(texts, llms) ==
    \E text \in texts, analysis \in AnalyzeOutcomes, llm \in llms :
      \E best \in OptimizeResults(text) :
        /\ CanSolve
        /\ LET r == SolveDisruptionResult(CM, performance_metrics, profit_metrics, text, analysis,
                                          best, llm, now)
           IN AgentCall("solve_disruption", text, r, r.ret)

\* POST /solve (main.py): any exception becomes an HTTP 500
PostSolve(texts) ==
    \E text \in texts, analysis \in AnalyzeOutcomes, llm \in LlmModes :
      \E best \in OptimizeResults(text) :
        /\ CanSolve
        /\ LET r == SolveDisruptionResult(CM, performance_metrics, profit_metrics, text, analysis,
                                          best, llm, now)
           IN AgentCall("post_solve", text, r,
                  IF r.ret.type = "raise"
                  THEN [type |-> "HTTPException", status_code |-> 500]
                  ELSE [type |-> "SolutionResponse",
                        solution_id |-> r.ret.id,
                        scenario_id |-> r.ret.scenario_id,
                        actions |-> r.ret.actions,
                        predicted_profit |-> r.ret.predicted_profit,
                        confidence |-> r.ret.confidence,
                        reasoning |-> r.ret.reasoning,
                        execution_time |-> r.ret.execution_time,
                        cache_hit |-> r.ret.cache_hit])

\* the dashboard's "Solve with AI" button (app.py): the text is checked with strip()
\* before process_scenario, which catches what the agent raises
AppSolve(texts) ==
    \E text \in texts, analysis \in AnalyzeOutcomes, llm \in LlmModes :
      \E best \in OptimizeResults(text) :
        /\ CanSolve
        /\ IF Strip(text) # ""
           THEN LET r == SolveDisruptionResult(CM, performance_metrics, profit_metrics, text, analysis,
                                               best, llm, now)
                IN AgentCall("app_solve", text, r,
                       IF r.ret.type = "raise"
                       THEN [type |-> "st.error", message |-> "Error processing scenario"]
                       ELSE r.ret)
           ELSE /\ last' = [op |-> "app_solve", arg |-> [text |-> text],
                            ret |-> [type |-> "st.error",
                                     message |-> "Please enter a scenario description to continue"],
                            pre |-> Pre]
                /\ UNCHANGED <<cache, expiry_times, access_times, stats, now,
                               performance_metrics, returned, threads, prediction_engine,
                               profit_metrics>>

\* get_prediction_cache_status
GetPredictionCacheStatus ==
    LET r == CacheGetAllKeys(CM, now)
    IN CacheCall("get_prediction_cache_status", [none |-> TRUE],
                 [cm |-> r.cm,
                  ret |-> [type |-> "dict",
                           total_cached_solutions |-> Len(r.ret.items),
                           cache_hits |-> performance_metrics.cache_hits,
                           total_scenarios |-> performance_metrics.total_scenarios]])

\* the key-value interface of one CacheManager
Next ==
    \/ Set(JsonValues) \/ Get(PrimaryKeys) \/ Delete(PrimaryKeys) \/ Exists(PrimaryKeys)
    \/ Keys(Patterns) \/ Clear \/ Size \/ Info
    \/ TickSecond

Spec == Init /\ [][Next]_vars

\* an agent built without a reasoning client, with its cache, as the API drives them
NextAgent ==
    \/ SolveDisruption(ScenarioTexts, {"none"}) \/ Clear \/ Info
    \/ GetPredictionCacheStatus
    \/ TickSecond \/ TickHour

SpecAgent == Init /\ [][NextAgent]_vars

\* the three ways a scenario text reaches the agent
NextEntry ==
    \/ SolveDisruption(BlankTexts \cup ScenarioTexts, LlmModes)
    \/ PostSolve(BlankTexts \cup ScenarioTexts)
    \/ AppSolve(BlankTexts \cup ScenarioTexts)
    \/ TickSecond

SpecEntry == Init /\ [][NextEntry]_vars

\* values that json.dumps refuses
NextSerial ==
    \/ Set(JsonValues \cup ObjectValues) \/ Get(PrimaryKeys) \/ Delete(PrimaryKeys)
    \/ TickSecond

SpecSerial == Init /\ [][NextSerial]_vars

\* the tag interface
NextTags ==
    \/ SetWithTags \/ GetByTag \/ DeleteByTag \/ Delete(AllKeys)
    \/ TickSecond

SpecTags == Init /\ [][NextTags]_vars

\* tagged entries written, deleted by key or by tag, and left to expire
NextTagDelete == SetWithTags \/ DeleteByTag \/ Delete(PrimaryKeys) \/ TickSecond

SpecTagDelete == Init /\ [][NextTagDelete]_vars

\* solve_disruption with the reasoning client absent, answering or failing
NextReasoning == SolveDisruption(ScenarioTexts, LlmModes) \/ TickHour

SpecReasoning == Init /\ [][NextReasoning]_vars

\* every operation that reads or writes the three maps of the cache manager, on
\* one primary key, stored plain or with the tag t1, and its shadow entry
MapKey == <<"a">>
OnMapKey == last'.arg.key = MapKey
WithOneTag == last'.arg.tags = <<"t1">>

NextMaps ==
    \/ (Set({PyStr("v1")}) /\ OnMapKey) \/ (SetWithTags /\ OnMapKey /\ WithOneTag)
    \/ Get({MapKey}) \/ Delete({MapKey, TagKey(MapKey)})
    \/ Exists({MapKey}) \/ Expire({MapKey}) \/ Ttl({MapKey}) \/ GetAllKeys
    \/ Size \/ Info \/ Clear \/ DeleteByTag
    \/ TickSecond

SpecMaps == Init /\ [][NextMaps]_vars

\* cached solutions read through the agent and through the cache manager
SolutionKeys == {ScenarioKey(CreateScenario(text)) : text \in ScenarioTexts}

NextReads ==
    \/ SolveDisruption(ScenarioTexts, {"none"}) \/ Probe(SolutionKeys)
    \/ TickSecond \/ TickHour

SpecReads == Init /\ [][NextReads]_vars

\* a sequential run in which the cache is reached only through solve_disruption
\* calls that return a Solution, and through clear
ReturnsNormally == last'.ret.type = "Solution"

NextCounters ==
    \/ (SolveDisruption(ScenarioTexts, {"none"}) /\ ReturnsNormally) \/ Clear
    \/ TickHour

SpecCounters == Init /\ [][NextCounters]_vars

\* the statistics interface
NextStats ==
    \/ Set({PyStr("v1")}) \/ Get(PrimaryKeys) \/ Delete(PrimaryKeys) \/ Clear \/ Info
    \/ GetStats \/ ResetStats
    \/ TickSecond

SpecStats == Init /\ [][NextStats]_vars

\* the optimizer's and the classifier's functions, called on their own
UniformDraws == {<<0, 0>>, <<0, 1>>, <<1, 0>>, <<1, 1>>}
RoiValues == {-5000, 12000, 45500}

\* a dict as a Python value
PyDict(d) == [type |-> "dict", d |-> d]

\* a call that touches no state of the cache or the agent
PureCall(op, arg, ret) == CacheCall(op, arg, [cm |-> CM, ret |-> ret])

ClassifyScenarioCall ==
    \E text \in BlankTexts \cup ScenarioTexts \cup ClassifierTexts \cup DemoTexts :
        PureCall("classify_scenario", [text |-> text], PyStr(ClassifyScenario(text)))

GenerateSolutionCandidatesCall ==
    \E scenario_type \in ScenarioTypes, u \in UniformDraws :
        PureCall("generate_solution_candidates",
                 [scenario_type |-> scenario_type, u |-> u],
                 PyList(GenerateSolutionCandidates(scenario_type, u)))

\* the selector on the first n evaluated candidates of a scenario type, n from 0
SelectBestSolutionCall ==
    \E scenario_type \in {"traffic_disruption", "general_disruption"},
       rois \in [1..3 -> RoiValues] :
        LET generated == GenerateSolutionCandidates(scenario_type, <<1, 1>>)
        IN \E n \in 0..Len(generated) :
            LET candidates == Evaluate(SubSeq(generated, 1, n), rois)
            IN PureCall("select_best_solution", [candidates |-> candidates],
                        PyDict(SelectBestSolution(candidates)))

\* the draws of the customer and brand values of one evaluation
ValueDraws == [1..4 -> {0, 1}]

OptimizeCall ==
    \E text \in ScenarioTexts \cup EstimateTexts, r \in {0, 4}, u \in UniformDraws,
       v1 \in {LowValues, <<1, 1, 1, 1>>}, v2 \in {LowValues, <<1, 1, 1, 1>>} :
        PureCall("optimize", [v |-> <<v1, v2, v2>>, r |-> r, text |-> text, u |-> u],
                 PyDict(Optimize(ScenarioOf(text, r), [u |-> u, v |-> <<v1, v2, v2>>])))

\* the draws of np.random.randint in the estimate
RandIntDraws == 0..4

EstimateAffectedDeliveriesCall ==
    \E text \in BlankTexts \cup ScenarioTexts \cup ClassifierTexts \cup EstimateTexts,
       r \in RandIntDraws :
        PureCall("estimate_affected_deliveries", [r |-> r, text |-> text],
                 PyInt(EstimateAffectedDeliveries(text, r)))

CreateScenarioCall ==
    \E text \in BlankTexts \cup ScenarioTexts \cup EstimateTexts, r \in RandIntDraws :
        PureCall("create_scenario", [r |-> r, text |-> text],
                 [type |-> "Scenario", scenario |-> ScenarioOf(text, r)])

\* the values scenario.affected_deliveries takes in the cost calls
UnitCounts == {0, 1, 2, 5}

\* every candidate the generators build, and a dict without actions
CostedSolutions ==
    UNION {{GenerateSolutionCandidates(scenario_type, <<1, 1>>)[i] :
                i \in DOMAIN GenerateSolutionCandidates(scenario_type, <<1, 1>>)} :
           scenario_type \in ScenarioTypes}
        \cup {[approach |-> "standard"]}

CalculateOperationalCostsCall ==
    \E solution \in CostedSolutions, affected_deliveries \in UnitCounts :
        PureCall("calculate_operational_costs",
                 [solution |-> solution, affected_deliveries |-> affected_deliveries],
                 PyInt(CalculateOperationalCosts(solution, affected_deliveries)))

CalculateRoiCall ==
    \E solution \in CostedSolutions, affected_deliveries \in UnitCounts, v \in ValueDraws :
        PureCall("calculate_roi",
                 [v |-> v, affected_deliveries |-> affected_deliveries,
                  solution |-> solution],
                 PyDict(CalculateRoi(solution,
                                     [affected_deliveries |-> affected_deliveries], v)))

\* the costs and the monthly long-term profits _calculate_payback_period is given
PaybackCosts == {0, Dollars(10), Dollars(58), Dollars(250)}
MonthlyProfits == {-7300, 0, 1, 600, 4800, 23250}

CalculatePaybackPeriodCall ==
    \E total_cost \in PaybackCosts, monthly_profit \in MonthlyProfits :
        PureCall("calculate_payback_period",
                 [total_cost |-> total_cost, monthly_profit |-> monthly_profit],
                 CalculatePaybackPeriod(total_cost, monthly_profit))

\* _update_metrics applied to the agent's metrics, resolution after resolution
MaxResolutions == 152

MetricSolutions ==
    {[type |-> "Solution", predicted_profit |-> 0, execution_time |-> 0]}

UpdateMetricsCall ==
    \E solution \in MetricSolutions, cache_hit \in BOOLEAN :
        /\ performance_metrics.total_scenarios < MaxResolutions
        /\ performance_metrics' = UpdateMetrics(performance_metrics, solution, cache_hit)
        /\ last' = [op |-> "update_metrics", arg |-> [cache_hit |-> cache_hit],
                    ret |-> PyNone, pre |-> Pre]
        /\ UNCHANGED <<cache, expiry_times, access_times, stats, now, returned, threads,
                       prediction_engine, profit_metrics>>

NextMetrics == UpdateMetricsCall

SpecMetrics == Init /\ [][NextMetrics]_vars

\* the background pass of the prediction engine
MaxDeliveries == 3      \* deliveries _get_active_deliveries reports in one pass
MaxPredictions == 1     \* a pass starts while fewer predictions than this are cached

\* what the probes and the random module give while one delivery is analysed: its
\* location, the weather reading or the exception of the probe, the hour, the
\* noise of the probability and the draw of the other random values
NoReading == [type |-> "raise", exc |-> "Exception"]
Reading(current_condition) == [type |-> "dict", current_condition |-> current_condition]

DeliveryDraws ==
    {[u |-> 1, location |-> [lat |-> 0, lng |-> 0], weather |-> Reading("storm"),
      noise |-> 9000, hour |-> 8],
     [u |-> 0, location |-> [lat |-> 80, lng |-> -80], weather |-> Reading("clear"),
      noise |-> -9000, hour |-> 22],
     [u |-> 0, location |-> [lat |-> 80, lng |-> -80], weather |-> Reading("cloudy"),
      noise |-> 9000, hour |-> 22],
     [u |-> 1, location |-> [lat |-> 0, lng |-> 0], weather |-> NoReading,
      noise |-> 9000, hour |-> 8]}

\* the draws of random.randint(1000, 9999) for the problem ids of a pass: all
\* different, or equal two by two
IdDraws ==
    {[k \in 1..(5 * MaxDeliveries) |-> k], [k \in 1..(5 * MaxDeliveries) |-> k \div 2]}

\* _get_active_deliveries
GetActiveDeliveries(draws) ==
    [i \in 1..Len(draws) |-> [id |-> <<"del_", i - 1>>, location |-> draws[i].location]]

CanPredict == Cardinality(DOMAIN prediction_engine.prediction_cache) < MaxPredictions

ContinuousPredictionCall ==
    \E n \in 1..MaxDeliveries :
      \E draws \in [1..n -> DeliveryDraws], ids \in IdDraws :
        /\ CanPredict
        /\ LET r == ContinuousPrediction(prediction_engine, GetActiveDeliveries(draws),
                                         draws, ids, now)
           IN /\ prediction_engine' = r.engine
              /\ last' = [op |-> "continuous_prediction",
                          arg |-> [ids |-> ids, draws |-> draws],
                          ret |-> [type |-> "NoneType", analysed |-> r.analysed,
                                   printed |-> r.printed],
                          pre |-> Pre]
        /\ UNCHANGED <<cache, expiry_times, access_times, stats, now,
                       performance_metrics, returned, threads, profit_metrics>>

\* the ids get_cached_solution is asked for: a cached one or one never issued
ProblemIds ==
    {<<"pred_", t, k>> : t \in 0..MaxTime, k \in 1000..1001}

GetCachedSolutionCall ==
    \E problem_id \in ProblemIds :
        LET r == GetCachedSolution(prediction_engine, problem_id, now)
        IN /\ prediction_engine' = r.engine
           /\ last' = [op |-> "get_cached_solution", arg |-> [problem_id |-> problem_id],
                       ret |-> r.ret, pre |-> Pre]
           /\ UNCHANGED <<cache, expiry_times, access_times, stats, now,
                          performance_metrics, returned, threads, profit_metrics>>

NextPrediction == ContinuousPredictionCall \/ GetCachedSolutionCall \/ TickSecond

SpecPrediction == Init /\ [][NextPrediction]_vars

NextOptimizer ==
    \/ ClassifyScenarioCall \/ GenerateSolutionCandidatesCall
    \/ SelectBestSolutionCall \/ OptimizeCall
    \/ CalculateOperationalCostsCall
    \/ EstimateAffectedDeliveriesCall \/ CreateScenarioCall \/ CalculateRoiCall
    \/ CalculatePaybackPeriodCall

SpecOptimizer == Init /\ [][NextOptimizer]_vars

-----------------------------------------------------------------------------
(* Simultaneous callers. No method of CacheManager or SynapseAgent takes a   *)
(* lock, so the statements of two calls interleave. A step below is one      *)
(* statement of the source; an augmented assignment x[k] += 1 is two steps,  *)
(* the load of x[k] and the store of the sum.                                *)

MaxCalls == 3       \* cache calls the callers start, all together

RECURSIVE Sum(_, _)
Sum(f, S) ==
    IF S = {} THEN 0
    ELSE LET x == CHOOSE x \in S : TRUE IN f[x] + Sum(f, S \ {x})

CallsStarted == Sum([c \in Callers |-> threads[c].calls], Callers)
Tally(field) == Sum([c \in Callers |-> threads[c].tally[field]], Callers)
AllIdle == \A c \in Callers : threads[c].pc = "idle"

ThreadKeys == {<<"a">>}
ThreadValues == {PyStr("v1")}
ThreadTTLs == {0, 1}

Move(c, th) == threads' = [threads EXCEPT ![c] = th]

\* the caller enters a method of the cache manager
Enter(th, method, key, value, ttl, pc) ==
    [th EXCEPT !.stack = Append(@, method), !.key = key, !.value = value,
               !.ttl = ttl, !.pc = pc]

\* a statement self.stats[counter] += 1 followed by return ret
BumpThenReturn(th, counter, ret) ==
    [th EXCEPT !.pc = "stat_load", !.counter = counter, !.ret = ret]

\* a method of the cache manager returns: to the caller outside, to get (which
\* called delete for an expired key), or to solve_disruption
CacheReturn(th, ret) ==
    LET method == th.stack[Len(th.stack)]
        rest == SubSeq(th.stack, 1, Len(th.stack) - 1)
        left == [th EXCEPT
                    !.stack = rest, !.counter = "", !.reg = 0, !.ret = ret,
                    !.tally.sets = IF method = "set" /\ Truthy(ret) THEN @ + 1 ELSE @,
                    !.tally.gets = IF method = "get" THEN @ + 1 ELSE @]
    IN IF rest = <<>>
       THEN [left EXCEPT !.pc = "idle", !.key = <<>>, !.value = PyNone, !.ttl = 0]
       ELSE IF method = "delete"
       THEN BumpThenReturn(left, "misses", PyNone)
       ELSE IF method = "get"
       THEN [left EXCEPT !.pc = "solve_probed", !.value = PyNone]
       ELSE [left EXCEPT !.pc = "metric_load", !.counter = "total_scenarios",
                         !.key = <<>>, !.value = PyNone, !.ttl = 0]

CallSet(c) ==
    \E key \in ThreadKeys, value \in ThreadValues, ttl \in ThreadTTLs :
        /\ threads[c].pc = "idle"
        /\ CallsStarted < MaxCalls
        /\ Move(c, Enter([threads[c] EXCEPT !.calls = @ + 1],
                         "set", key, value, ttl, "set_cache"))
        /\ UNCHANGED <<cache, expiry_times, access_times, stats, now,
                       performance_metrics, returned, last, prediction_engine,
                       profit_metrics>>

CallGet(c) ==
    \E key \in ThreadKeys :
        /\ threads[c].pc = "idle"
        /\ CallsStarted < MaxCalls
        /\ Move(c, Enter([threads[c] EXCEPT !.calls = @ + 1],
                         "get", key, PyNone, 0, "get_check"))
        /\ UNCHANGED <<cache, expiry_times, access_times, stats, now,
                       performance_metrics, returned, last, prediction_engine,
                       profit_metrics>>

CallDelete(c) ==
    \E key \in ThreadKeys :
        /\ threads[c].pc = "idle"
        /\ CallsStarted < MaxCalls
        /\ Move(c, Enter([threads[c] EXCEPT !.calls = @ + 1],
                         "delete", key, PyNone, 0, "del_check"))
        /\ UNCHANGED <<cache, expiry_times, access_times, stats, now,
                       performance_metrics, returned, last, prediction_engine,
                       profit_metrics>>

\* set: serialized_value = self._serialize_value(value); self.cache[key] = it
SetCache(c) ==
    LET th == threads[c]
        serialized_value == SerializeValue(th.value)
    IN /\ th.pc = "set_cache"
       /\ IF serialized_value.type = "raise"
          THEN /\ Move(c, CacheReturn(th, PyBool(FALSE)))
               /\ UNCHANGED cache
          ELSE /\ cache' = DictSet(cache, th.key, serialized_value)
               /\ threads' =
                     [d \in Callers |->
                         IF d = c
                         THEN [th EXCEPT !.pc = "set_expiry", !.latest = TRUE,
                                         !.written = <<[key |-> th.key,
                                                        value |-> serialized_value]>>]
                         ELSE IF /\ threads[d].written # <<>>
                                 /\ threads[d].written[1].key = th.key
                         THEN [threads[d] EXCEPT !.latest = FALSE]
                         ELSE threads[d]]
       /\ UNCHANGED <<expiry_times, access_times, stats, now, performance_metrics,
                      returned, last, prediction_engine, profit_metrics>>

\* set: self.expiry_times[key] = time.time() + ttl, or None
SetExpiry(c) ==
    LET th == threads[c]
    IN /\ th.pc = "set_expiry"
       /\ expiry_times' = MapSet(expiry_times, th.key, ExpiryFor(th.ttl, now))
       /\ Move(c, [th EXCEPT !.pc = "set_access"])
       /\ UNCHANGED <<cache, access_times, stats, now, performance_metrics,
                      returned, last, prediction_engine, profit_metrics>>

\* set: self.access_times[key] = time.time()
SetAccess(c) ==
    LET th == threads[c]
    IN /\ th.pc = "set_access"
       /\ access_times' = MapSet(access_times, th.key, now)
       /\ Move(c, BumpThenReturn(th, "sets", PyBool(TRUE)))
       /\ UNCHANGED <<cache, expiry_times, stats, now, performance_metrics,
                      returned, last, prediction_engine, profit_metrics>>

\* self.stats[counter] += 1: the load
StatLoad(c) ==
    LET th == threads[c]
    IN /\ th.pc = "stat_load"
       /\ Move(c, [th EXCEPT !.pc = "stat_store", !.reg = stats[th.counter]])
       /\ UNCHANGED <<cache, expiry_times, access_times, stats, now,
                      performance_metrics, returned, last, prediction_engine,
                      profit_metrics>>

\* self.stats[counter] += 1: the store, and the return that follows it
StatStore(c) ==
    LET th == threads[c]
    IN /\ th.pc = "stat_store"
       /\ stats' = [stats EXCEPT ![th.counter] = th.reg + 1]
       /\ Move(c, CacheReturn(th, th.ret))
       /\ UNCHANGED <<cache, expiry_times, access_times, now, performance_metrics,
                      returned, last, prediction_engine, profit_metrics>>

\* get: if key not in self.cache
GetCheck(c) ==
    LET th == threads[c]
    IN /\ th.pc = "get_check"
       /\ Move(c, IF th.key \notin DictKeys(cache)
                  THEN BumpThenReturn(th, "misses", PyNone)
                  ELSE [th EXCEPT !.pc = "is_expired_check"])
       /\ UNCHANGED <<cache, expiry_times, access_times, stats, now,
                      performance_metrics, returned, last, prediction_engine,
                      profit_metrics>>

\* _is_expired: if key not in self.expiry_times: return False
IsExpiredCheck(c) ==
    LET th == threads[c]
    IN /\ th.pc = "is_expired_check"
       /\ Move(c, [th EXCEPT !.pc = IF th.key \notin DOMAIN expiry_times
                                    THEN "get_read" ELSE "is_expired_read"])
       /\ UNCHANGED <<cache, expiry_times, access_times, stats, now,
                      performance_metrics, returned, last, prediction_engine,
                      profit_metrics>>

\* _is_expired: expiry_time = self.expiry_times[key] and the comparison with the
\* clock. A KeyError leaves _is_expired for the except clause of get; an expired
\* key makes get call delete
IsExpiredRead(c) ==
    LET th == threads[c]
    IN /\ th.pc = "is_expired_read"
       /\ Move(c, IF th.key \notin DOMAIN expiry_times
                  THEN BumpThenReturn(th, "misses", PyNone)
                  ELSE IF IsExpired(CM, th.key, now)
                  THEN Enter(th, "delete", th.key, PyNone, 0, "del_check")
                  ELSE [th EXCEPT !.pc = "get_read"])
       /\ UNCHANGED <<cache, expiry_times, access_times, stats, now,
                      performance_metrics, returned, last, prediction_engine,
                      profit_metrics>>

\* get: serialized_value = self.cache[key], deserialized; a KeyError goes to the
\* except clause
GetRead(c) ==
    LET th == threads[c]
    IN /\ th.pc = "get_read"
       /\ Move(c, IF th.key \notin DictKeys(cache)
                  THEN BumpThenReturn(th, "misses", PyNone)
                  ELSE [th EXCEPT !.pc = "get_access",
                                  !.value = DeserializeValue(DictGet(cache, th.key))])
       /\ UNCHANGED <<cache, expiry_times, access_times, stats, now,
                      performance_metrics, returned, last, prediction_engine,
                      profit_metrics>>

\* get: self.access_times[key] = time.time()
GetAccess(c) ==
    LET th == threads[c]
    IN /\ th.pc = "get_access"
       /\ access_times' = MapSet(access_times, th.key, now)
       /\ Move(c, BumpThenReturn(th, "hits", th.value))
       /\ UNCHANGED <<cache, expiry_times, stats, now, performance_metrics,
                      returned, last, prediction_engine, profit_metrics>>

\* delete: if key in self.cache
DelCheck(c) ==
    LET th == threads[c]
    IN /\ th.pc = "del_check"
       /\ Move(c, IF th.key \in DictKeys(cache)
                  THEN [th EXCEPT !.pc = "del_cache"]
                  ELSE CacheReturn(th, PyBool(FALSE)))
       /\ UNCHANGED <<cache, expiry_times, access_times, stats, now,
                      performance_metrics, returned, last, prediction_engine,
                      profit_metrics>>

\* delete: del self.cache[key]; a KeyError is caught and delete returns False
DelCache(c) ==
    LET th == threads[c]
    IN /\ th.pc = "del_cache"
       /\ IF th.key \in DictKeys(cache)
          THEN /\ cache' = DictDel(cache, th.key)
               /\ Move(c, [th EXCEPT !.pc = "del_expiry", !.tally.removed = @ + 1])
          ELSE /\ Move(c, CacheReturn(th, PyBool(FALSE)))
               /\ UNCHANGED cache
       /\ UNCHANGED <<expiry_times, access_times, stats, now, performance_metrics,
                      returned, last, prediction_engine, profit_metrics>>

\* delete: del self.expiry_times[key]
DelExpiry(c) ==
    LET th == threads[c]
    IN /\ th.pc = "del_expiry"
       /\ IF th.key \in DOMAIN expiry_times
          THEN /\ expiry_times' = MapDel(expiry_times, th.key)
               /\ Move(c, [th EXCEPT !.pc = "del_access"])
          ELSE /\ Move(c, CacheReturn(th, PyBool(FALSE)))
               /\ UNCHANGED expiry_times
       /\ UNCHANGED <<cache, access_times, stats, now, performance_metrics,
                      returned, last, prediction_engine, profit_metrics>>

\* delete: del self.access_times[key]
DelAccess(c) ==
    LET th == threads[c]
    IN /\ th.pc = "del_access"
       /\ IF th.key \in DOMAIN access_times
          THEN /\ access_times' = MapDel(access_times, th.key)
               /\ Move(c, BumpThenReturn(th, "deletes", PyBool(TRUE)))
          ELSE /\ Move(c, CacheReturn(th, PyBool(FALSE)))
               /\ UNCHANGED access_times
       /\ UNCHANGED <<cache, expiry_times, stats, now, performance_metrics,
                      returned, last, prediction_engine, profit_metrics>>

\* one statement of a call on the cache manager
CacheStep(c) ==
    \/ SetCache(c) \/ SetExpiry(c) \/ SetAccess(c)
    \/ GetCheck(c) \/ IsExpiredCheck(c) \/ IsExpiredRead(c) \/ GetRead(c) \/ GetAccess(c)
    \/ DelCheck(c) \/ DelCache(c) \/ DelExpiry(c) \/ DelAccess(c)
    \/ StatLoad(c) \/ StatStore(c)

\* callers of set, get and delete on one cache manager
NextThreads ==
    \/ \E c \in Callers : CallSet(c) \/ CallGet(c) \/ CallDelete(c) \/ CacheStep(c)
    \/ TickSecond

SpecThreads == Init /\ [][NextThreads]_vars

\* the text the simultaneous callers of solve_disruption send, and their agent's
\* reasoning client
RaceTexts == {"Major accident on Highway 1 affects 5 active deliveries"}
RaceLlms == {"none"}

\* solve_disruption returns, or an exception leaves it
SolveReturn(th, ret) ==
    [th EXCEPT
        !.pc = "idle", !.stack = <<>>, !.ret = ret, !.text = "", !.solution = PyNone,
        !.key = <<>>, !.value = PyNone, !.ttl = 0, !.counter = "", !.reg = 0,
        !.current_avg = 0, !.total_scenarios = 0,
        !.tally.solved = IF ret.type = "Solution" THEN @ + 1 ELSE @,
        !.tally.solved_hits = IF ret.type = "Solution" /\ ret.cache_hit THEN @ + 1 ELSE @]

\* solve_disruption starts: the scenario is created and _check_prediction_cache
\* calls get with the scenario's key
CallSolve(c) ==
    \E text \in RaceTexts :
        /\ threads[c].pc = "idle"
        /\ CallsStarted < MaxScenarios
        /\ Move(c, Enter([threads[c] EXCEPT !.calls = @ + 1, !.text = text,
                                            !.stack = <<"solve_disruption">>],
                         "get", ScenarioKey(CreateScenario(text)), PyNone, 0,
                         "get_check"))
        /\ UNCHANGED <<cache, expiry_times, access_times, stats, now,
                       performance_metrics, returned, last, prediction_engine,
                       profit_metrics>>

\* solve_disruption after the probe: the cached Solution goes to _update_metrics;
\* on a miss the analysis, the optimizer and _execute_with_reasoning run and
\* _cache_solution calls set
SolveProbed(c) ==
    LET th == threads[c]
        scenario == CreateScenario(th.text)
        cached_data == th.ret
    IN /\ th.pc = "solve_probed"
       /\ IF Truthy(cached_data)
          THEN LET rebuilt == SolutionFromDict(cached_data)
               IN /\ Move(c, IF rebuilt.type = "raise" THEN SolveReturn(th, rebuilt)
                             ELSE [th EXCEPT
                                      !.solution = [rebuilt EXCEPT !.cache_hit = TRUE,
                                                                   !.execution_time = 0],
                                      !.pc = "metric_load",
                                      !.counter = "total_scenarios"])
                  /\ UNCHANGED profit_metrics
          ELSE \E analysis \in AnalyzeOutcomes, llm \in RaceLlms :
                 \E best \in OptimizeResults(scenario.raw_input) :
                   /\ Move(c, IF analysis = "raise"
                              THEN SolveReturn(th, Raised("Exception"))
                              ELSE LET final_solution ==
                                           ExecuteWithReasoning(scenario, best, llm, now)
                                   IN Enter([th EXCEPT !.solution = final_solution],
                                            "set", ScenarioKey(scenario),
                                            ToDict(final_solution), SolutionTTL,
                                            "set_cache"))
                   /\ profit_metrics' = IF analysis = "raise" THEN profit_metrics
                                        ELSE UpdateOptimizationMetrics(profit_metrics, best)
       /\ UNCHANGED <<cache, expiry_times, access_times, stats, now,
                      performance_metrics, returned, last, prediction_engine>>

\* _update_metrics: the load of an augmented assignment on performance_metrics
MetricLoad(c) ==
    LET th == threads[c]
    IN /\ th.pc = "metric_load"
       /\ Move(c, [th EXCEPT !.pc = "metric_store",
                             !.reg = performance_metrics[th.counter]])
       /\ UNCHANGED <<cache, expiry_times, access_times, stats, now,
                      performance_metrics, returned, last, prediction_engine,
                      profit_metrics>>

\* _update_metrics: the store of total_scenarios += 1, cache_hits += 1 (on a hit)
\* and total_profit_generated += solution.predicted_profit
MetricStore(c) ==
    LET th == threads[c]
        addend == IF th.counter = "total_profit_generated"
                  THEN th.solution.predicted_profit ELSE 1
    IN /\ th.pc = "metric_store"
       /\ performance_metrics' = [performance_metrics EXCEPT ![th.counter] = th.reg + addend]
       /\ Move(c, IF th.counter = "total_scenarios" /\ th.solution.cache_hit
                  THEN [th EXCEPT !.pc = "metric_load", !.counter = "cache_hits", !.reg = 0]
                  ELSE IF th.counter = "total_profit_generated"
                  THEN [th EXCEPT !.pc = "accuracy_store", !.counter = "", !.reg = 0]
                  ELSE [th EXCEPT !.pc = "avg_load", !.counter = "", !.reg = 0])
       /\ UNCHANGED <<cache, expiry_times, access_times, stats, now, returned, last,
                      prediction_engine, profit_metrics>>

\* _update_metrics: current_avg = self.performance_metrics['average_response_time']
AvgLoad(c) ==
    LET th == threads[c]
    IN /\ th.pc = "avg_load"
       /\ Move(c, [th EXCEPT !.pc = "total_load",
                             !.current_avg = performance_metrics.average_response_time])
       /\ UNCHANGED <<cache, expiry_times, access_times, stats, now,
                      performance_metrics, returned, last, prediction_engine,
                      profit_metrics>>

\* _update_metrics: total_scenarios = self.performance_metrics['total_scenarios']
TotalLoad(c) ==
    LET th == threads[c]
    IN /\ th.pc = "total_load"
       /\ Move(c, [th EXCEPT !.pc = "avg_store",
                             !.total_scenarios = performance_metrics.total_scenarios])
       /\ UNCHANGED <<cache, expiry_times, access_times, stats, now,
                      performance_metrics, returned, last, prediction_engine,
                      profit_metrics>>

\* _update_metrics: the new average_response_time is stored
AvgStore(c) ==
    LET th == threads[c]
    IN /\ th.pc = "avg_store"
       /\ performance_metrics' =
             [performance_metrics EXCEPT !.average_response_time =
                 (th.current_avg * (th.total_scenarios - 1) + th.solution.execution_time)
                     \div th.total_scenarios]
       /\ Move(c, [th EXCEPT !.pc = "metric_load", !.counter = "total_profit_generated",
                             !.current_avg = 0])
       /\ UNCHANGED <<cache, expiry_times, access_times, stats, now, returned, last,
                      prediction_engine, profit_metrics>>

\* _update_metrics: accuracy_rate is stored, and solve_disruption returns
AccuracyStore(c) ==
    LET th == threads[c]
        improvement_factor == IF th.total_scenarios < 150 THEN th.total_scenarios ELSE 150
    IN /\ th.pc = "accuracy_store"
       /\ performance_metrics' =
             [performance_metrics EXCEPT !.accuracy_rate = 850 + improvement_factor]
       /\ Move(c, SolveReturn(th, th.solution))
       /\ UNCHANGED <<cache, expiry_times, access_times, stats, now, returned, last,
                      prediction_engine, profit_metrics>>

\* one statement of _update_metrics
MetricStep(c) ==
    \/ MetricLoad(c) \/ MetricStore(c) \/ AvgLoad(c) \/ TotalLoad(c) \/ AvgStore(c)
    \/ AccuracyStore(c)

\* more than a whole TTL period passes. A call lasts well under a second
\* (solve_disruption: "Returns solution in 0.3 seconds or less"), so the hour
\* passes between calls
TickPastTTL ==
    /\ AllIdle
    /\ now \div SolutionTTL < MaxHours
    /\ now' = now + SolutionTTL + 1
    /\ UNCHANGED <<cache, expiry_times, access_times, stats, performance_metrics,
                   returned, last, threads, prediction_engine, profit_metrics>>

\* callers of solve_disruption on one agent
NextRace ==
    \/ \E c \in Callers : CallSolve(c) \/ SolveProbed(c) \/ CacheStep(c) \/ MetricStep(c)
    \/ TickPastTTL

SpecRace == Init /\ [][NextRace]_vars

-----------------------------------------------------------------------------
(* The steps the properties speak of *)

GetStep(key) ==
    /\ last'.op = "get"
    /\ last'.arg = [key |-> key]
    /\ CacheCall("get", [key |-> key], CacheGet(CM, key, now))

\* the entry under key is stored and its expiry time has passed
PastExpiry(key) ==
    /\ key \in DictKeys(cache)
    /\ key \in DOMAIN expiry_times
    /\ expiry_times[key] # NoExpiry
    /\ now > expiry_times[key][1]

Stored(key) == key \in DictKeys(cache)

-----------------------------------------------------------------------------
(* C2: a get of an entry whose expiry time has passed returns None, removes *)
(* the entry from the three maps and counts exactly one miss and no hit.   *)

C2_ExpiredGetIsOneMiss ==
    [][\A key \in PrimaryKeys :
        (PastExpiry(key) /\ GetStep(key))
        => /\ last'.ret = PyNone
           /\ key \notin DictKeys(cache')
           /\ key \notin DOMAIN expiry_times'
           /\ key \notin DOMAIN access_times'
           /\ stats'.misses = stats.misses + 1
           /\ stats'.hits = stats.hits]_vars

\* a get has just evicted an entry that a set with a positive ttl stored
C2_Witness ==
    /\ last.op = "get"
    /\ last.ret = PyNone
    /\ last.pre.size = Len(cache) + 1
    /\ stats.deletes = last.pre.stats.deletes + 1
    /\ stats.misses = last.pre.stats.misses + 1

-----------------------------------------------------------------------------
(* C3: there is at most one entry per key, and a set on a stored key       *)
(* replaces it: the entry holds the new value alone, a get returns it, and *)
(* the expiry is the one the new ttl gives.                                *)

SetStep(key, value, ttl) ==
    /\ last'.op = "set"
    /\ last'.arg = [key |-> key, value |-> value, ttl |-> ttl]
    /\ CacheCall("set", last'.arg, CacheSet(CM, key, value, ttl, now))

UniqueKeys == \A i, j \in DOMAIN cache : cache[i].k = cache[j].k => i = j

C3_SetReplacesEntry ==
    /\ []UniqueKeys
    /\ [][\A key \in PrimaryKeys, value \in JsonValues, ttl \in TTLs :
            (Stored(key) /\ SetStep(key, value, ttl))
            => /\ Cardinality({i \in DOMAIN cache' : cache'[i].k = key}) = 1
               /\ Len(cache') = Len(cache)
               /\ CacheGet(CM', key, now').ret = value
               /\ expiry_times'[key] = (IF ttl > 0 THEN <<now + ttl>> ELSE <<>>)
               /\ access_times'[key] = now
               /\ \A other \in DictKeys(cache) \ {key} :
                    /\ DictGet(cache', other) = DictGet(cache, other)
                    /\ expiry_times'[other] = expiry_times[other]]_vars

\* a set has just overwritten a stored key whose value and expiry were others
C3_Witness ==
    /\ last.op = "set"
    /\ last.ret = PyBool(TRUE)
    /\ last.pre.size = Len(cache)
    /\ last.pre.stats.sets = 1
    /\ last.arg.value = PyStr("v2")
    /\ last.arg.ttl = 0
    /\ expiry_times[last.arg.key] = NoExpiry
    /\ now > 0

-----------------------------------------------------------------------------
(* C4: keys(pattern) completes, returns exactly the stored keys that match *)
(* the pattern and are not expired, and leaves no expired matching entry.  *)

KeysStep(pattern) ==
    /\ last'.op = "keys"
    /\ last'.arg = [pattern |-> pattern]
    /\ CacheCall("keys", [pattern |-> pattern], CacheKeys(CM, pattern, now))

LiveMatching(pattern) ==
    SelectSeq(DictKeyList(cache),
              LAMBDA key : FnMatch(key, pattern) /\ ~PastExpiry(key))

C4_KeysReturnsLiveMatches ==
    [][\A pattern \in Patterns :
        KeysStep(pattern)
        => /\ last'.ret = PyList(LiveMatching(pattern))
           /\ \A key \in DictKeys(cache') :
                FnMatch(key, pattern) =>
                    (expiry_times'[key] = NoExpiry \/ now <= expiry_times'[key][1])]_vars

-----------------------------------------------------------------------------
(* C7: an entry stored with ttl <= 0 has no expiry; whatever time passes   *)
(* and whatever is called, only a delete, a clear or a set/expire of its   *)
(* key removes or changes it, and a get keeps returning its value.         *)

\* the step is a delete, set or expire of the key, or a clear
Overwrites(key) ==
    /\ now' = now
    /\ \/ last'.op = "clear"
       \/ last'.op \in {"set", "delete", "expire"} /\ last'.arg.key = key

C7_NoExpiryEntryStays ==
    [][\A key \in PrimaryKeys :
        /\ \A value \in JsonValues, ttl \in TTLs :
              (ttl <= 0 /\ SetStep(key, value, ttl)) => expiry_times'[key] = NoExpiry
        /\ (Stored(key) /\ expiry_times[key] = NoExpiry /\ ~Overwrites(key))
           => /\ key \in DictKeys(cache')
              /\ DictGet(cache', key) = DictGet(cache, key)
              /\ expiry_times'[key] = NoExpiry
              /\ CacheGet(CM', key, now').ret = DeserializeValue(DictGet(cache, key))]_vars

\* an entry set with ttl 0 at time 0 is still returned when the clock is at its bound
C7_Witness ==
    /\ last.op = "get"
    /\ last.arg.key \in DictKeys(cache)
    /\ last.ret = DeserializeValue(DictGet(cache, last.arg.key))
    /\ expiry_times[last.arg.key] = NoExpiry
    /\ stats.sets = 1
    /\ now >= MaxTime

-----------------------------------------------------------------------------
(* C9: a set of a value that json.dumps cannot serialize returns False and *)
(* stores nothing: the three maps are as before and the key has no entry.  *)

C9_UnserializableSetFails ==
    [][\A key \in PrimaryKeys, value \in ObjectValues, ttl \in TTLs :
        (~Stored(key) /\ SetStep(key, value, ttl))
        => /\ last'.ret = PyBool(FALSE)
           /\ UNCHANGED <<cache, expiry_times, access_times>>
           /\ CacheGet(CM', key, now').ret = PyNone]_vars

-----------------------------------------------------------------------------
(* C6: the counters hits, misses, sets and deletes never decrease.         *)

CountersGrow == \A counter \in DOMAIN stats : stats'[counter] >= stats[counter]

C6_CountersNeverDecrease == [][CountersGrow]_vars

ResetStatsStep ==
    /\ last'.op = "reset_stats"
    /\ CacheCall("reset_stats", [none |-> TRUE], CacheResetStats(CM))

InfoStep ==
    /\ last'.op = "info"
    /\ CacheCall("info", [none |-> TRUE], CacheInfo(CM, now))

(* C6, amended: no operation other than reset_stats decreases a counter;   *)
(* reset_stats sets the four to zero; info reports the counters as they    *)
(* are after its cleanup, changing none but deletes, which its evictions   *)
(* raise.                                                                  *)
C6_CountersGrowUnlessReset ==
    [][/\ ~ResetStatsStep => CountersGrow
       /\ ResetStatsStep => stats' = EmptyStats
       /\ InfoStep =>
            /\ \A counter \in DOMAIN stats : last'.ret[counter] = stats'[counter]
            /\ \A counter \in {"hits", "misses", "sets"} : stats'[counter] = stats[counter]
            /\ stats'.deletes = stats.deletes + (Len(cache) - Len(cache'))]_vars

\* info has just evicted an expired entry and reported counters that are not zero
C6_Witness ==
    /\ last.op = "info"
    /\ last.ret.deletes = last.pre.stats.deletes + 1
    /\ last.ret.sets = stats.sets
    /\ last.ret.hits + last.ret.misses > 0
    /\ stats.sets > 0

-----------------------------------------------------------------------------
(* C5: get_by_tag(t) completes and returns exactly the values of the       *)
(* primary entries that are stored and not expired and whose shadow entry  *)
(* tags:{key}, stored and not expired, lists t.                            *)

GetByTagStep(tag) ==
    /\ last'.op = "get_by_tag"
    /\ last'.arg = [tag |-> tag]
    /\ CacheCall("get_by_tag", [tag |-> tag], CacheGetByTag(CM, tag, now))

Tagged(key, tag) ==
    /\ ~StartsWithTags(key)
    /\ ~PastExpiry(key)
    /\ Stored(TagKey(key))
    /\ ~PastExpiry(TagKey(key))
    /\ PyIn(tag, DeserializeValue(DictGet(cache, TagKey(key))))

ValuesOf(key_list) ==
    [i \in DOMAIN key_list |-> DeserializeValue(DictGet(cache, key_list[i]))]

C5_GetByTagReturnsLiveTagged ==
    [][\A tag \in Tags :
        GetByTagStep(tag)
        => last'.ret = PyList(ValuesOf(SelectSeq(DictKeyList(cache),
                                                 LAMBDA key : Tagged(key, tag))))]_vars

-----------------------------------------------------------------------------
(* C1: a solve_disruption of a text whose solution was returned before and *)
(* whose entry is still stored and within its TTL returns a Solution with  *)
(* cache_hit true and the predicted_profit and actions returned before.    *)

KeyOf(text) == ScenarioKey(CreateScenario(text))

C1_SecondSolveIsSameHit ==
    [][\A text \in ScenarioTexts :
        (/\ text \in DOMAIN returned
         /\ Stored(KeyOf(text))
         /\ ~PastExpiry(KeyOf(text))
         /\ SolveDisruption({text}, LlmModes))
        => /\ last'.ret.type = "Solution"
           /\ last'.ret.cache_hit
           /\ last'.ret.predicted_profit = returned[text].predicted_profit
           /\ last'.ret.actions = returned[text].actions]_vars

\* a hit at the last second of the TTL
C1_Witness ==
    /\ last.op = "solve_disruption"
    /\ last.ret.type = "Solution"
    /\ last.ret.cache_hit
    /\ last.ret.predicted_profit = 100
    /\ last.ret = [returned[last.arg.text] EXCEPT !.cache_hit = TRUE]
    /\ stats.hits = 1
    /\ now = expiry_times[KeyOf(last.arg.text)][1]

-----------------------------------------------------------------------------
(* C8: after clear, info reports total_keys 0, and the next                *)
(* solve_disruption of a text solved before returns a Solution with        *)
(* cache_hit false and stores a new entry under the text's key.            *)

C8_ClearThenFreshMiss ==
    [][/\ (last.op = "clear" /\ InfoStep) => last'.ret.total_keys = 0
       /\ \A text \in ScenarioTexts :
            (/\ last.op = "clear"
             /\ text \in DOMAIN returned
             /\ SolveDisruption({text}, LlmModes))
            => /\ last'.ret.type = "Solution"
               /\ ~last'.ret.cache_hit
               /\ KeyOf(text) \in DictKeys(cache')
               /\ stats'.misses = stats.misses + 1
               /\ stats'.sets = stats.sets + 1]_vars

-----------------------------------------------------------------------------
(* C10: a resolve call with an empty or whitespace-only text yields a      *)
(* validation failure and leaves the cache, its counters and the           *)
(* performance metrics as they were.                                       *)

IsValidationFailure(ret) ==
    \/ ret.type = "st.error" /\ ret.message = "Please enter a scenario description to continue"
    \/ ret.type = "HTTPException" /\ ret.status_code \in {400, 422}
    \/ ret.type = "raise" /\ ret.exc = "ValueError"

C10_BlankTextRejected ==
    [][(\/ SolveDisruption(BlankTexts, LlmModes)
        \/ PostSolve(BlankTexts)
        \/ AppSolve(BlankTexts))
       => /\ IsValidationFailure(last'.ret)
          /\ UNCHANGED <<cache, expiry_times, access_times, stats,
                         performance_metrics>>]_vars

-----------------------------------------------------------------------------
(* C11: a cache-miss resolution during which the reasoning collaborator    *)
(* fails (no client, or a client whose model call errors) returns a        *)
(* Solution whose reasoning is the default string and whose                *)
(* interactive_options is the two-item default list.                       *)

C11_FailedReasoningGivesDefaults ==
    [][\A text \in ScenarioTexts :
        (/\ SolveDisruption({text}, {"none", "error"})
         /\ last'.ret.type = "Solution"
         /\ ~last'.ret.cache_hit)
        => /\ last'.ret.reasoning = DefaultReasoning
           /\ last'.ret.interactive_options = DefaultOptions]_vars

-----------------------------------------------------------------------------
(* C12: every solve_disruption call on a non-empty text returns a          *)
(* Solution, whatever the collaborators do.                                *)

C12_SolveAlwaysReturnsSolution ==
    [][SolveDisruption(ScenarioTexts, LlmModes) => last'.ret.type = "Solution"]_vars

-----------------------------------------------------------------------------
(* C17: from a non-empty sequence of evaluated candidates the selector     *)
(* returns a candidate of maximal roi_percentage, and among those tied for *)
(* the maximum the earliest in the sequence.                               *)

FirstMaximum(c) ==
    CHOOSE i \in DOMAIN c :
        /\ \A j \in DOMAIN c : RoiKey(c[j]) <= RoiKey(c[i])
        /\ \A j \in DOMAIN c : j < i => RoiKey(c[j]) < RoiKey(c[i])

C17_SelectsFirstMaximum ==
    (last.op = "select_best_solution" /\ last.arg.candidates # <<>>)
    => LET c == last.arg.candidates
       IN /\ last.ret = PyDict(c[FirstMaximum(c)])
          /\ \A j \in DOMAIN c : RoiKey(last.ret.d) >= RoiKey(c[j])

\* ROI values 12.0, 45.5, 45.5: the second candidate is returned
C17_Witness ==
    /\ last.op = "select_best_solution"
    /\ Len(last.arg.candidates) = 3
    /\ RoiKey(last.arg.candidates[1]) = 12000
    /\ RoiKey(last.arg.candidates[2]) = 45500
    /\ RoiKey(last.arg.candidates[3]) = 45500
    /\ last.ret = PyDict(last.arg.candidates[2])

-----------------------------------------------------------------------------
(* C18: the selector, given an empty sequence, raises instead of returning *)
(* a value.                                                                *)

C18_EmptySelectionFailsFast ==
    (last.op = "select_best_solution" /\ last.arg.candidates = <<>>)
    => last.ret.type = "raise"

-----------------------------------------------------------------------------
(* C19: for every scenario type candidate generation returns the standard  *)
(* baseline first and then the variants of the type: two for               *)
(* customer_issue, traffic_disruption and driver_wellbeing, one            *)
(* (innovation_focused) for any other type.                                *)

Approaches(candidates) == [i \in DOMAIN candidates |-> candidates[i].approach]

C19_CandidatesByType ==
    last.op = "generate_solution_candidates"
    => LET c == last.ret.items
           scenario_type == last.arg.scenario_type
       IN /\ Len(c) >= 2
          /\ c[1].approach = "standard"
          /\ c[1].actions = <<"investigate", "notify", "monitor">>
          /\ c[1].predicted_profit = 0
          /\ c[1].confidence = 70
          /\ Tail(Approaches(c)) =
                CASE scenario_type = "customer_issue" ->
                        <<"premium_customer", "retention_focused">>
                  [] scenario_type = "traffic_disruption" ->
                        <<"proactive_rerouting", "fleet_optimization">>
                  [] scenario_type = "driver_wellbeing" ->
                        <<"driver_support", "team_collaboration">>
                  [] OTHER -> <<"innovation_focused">>

\* a type outside the known set has got the baseline and the innovation variant
C19_Witness ==
    /\ last.op = "generate_solution_candidates"
    /\ last.arg.scenario_type = "unknown_type"
    /\ Approaches(last.ret.items) = <<"standard", "innovation_focused">>

-----------------------------------------------------------------------------
(* C20: the scenario type is that of the first category, in the order      *)
(* traffic, customer issue, driver wellbeing, environmental, of which the  *)
(* text contains a keyword, and general_disruption when it contains none.  *)

C20_KeywordPriority ==
    last.op = "classify_scenario"
    => LET k == KeywordsIn(last.arg.text)
           traffic == k \cap {"traffic", "accident", "jam", "road"} # {}
           customer == k \cap {"complaint", "angry", "cold", "food"} # {}
           driver == k \cap {"driver", "voice", "stress"} # {}
           weather == k \cap {"weather", "rain", "storm"} # {}
       IN /\ traffic => last.ret = PyStr("traffic_disruption")
          /\ (~traffic /\ customer) => last.ret = PyStr("customer_issue")
          /\ (~traffic /\ ~customer /\ driver) => last.ret = PyStr("driver_wellbeing")
          /\ (~traffic /\ ~customer /\ ~driver /\ weather)
                => last.ret = PyStr("environmental")
          /\ (~traffic /\ ~customer /\ ~driver /\ ~weather)
                => last.ret = PyStr("general_disruption")

\* a text with a traffic keyword and driver keywords is a traffic disruption
C20_Witness ==
    /\ last.op = "classify_scenario"
    /\ {"traffic", "driver"} \subseteq KeywordsIn(last.arg.text)
    /\ last.ret = PyStr("traffic_disruption")

-----------------------------------------------------------------------------
\* C13: whatever the interleaving of the set, get and delete calls of several
\* callers, once they have all returned every stored key has an expiry entry and
\* an access-time entry, and no other key has one.
C13_MapsMatchStoredKeys ==
    AllIdle => /\ DOMAIN expiry_times = DictKeys(cache)
               /\ DOMAIN access_times = DictKeys(cache)

-----------------------------------------------------------------------------
\* C14: whatever the interleaving, once all callers have returned, sets is the
\* number of set calls that returned True, hits + misses the number of get calls,
\* and deletes the number of entries taken out of the cache.
C14_NoCounterUpdateLost ==
    AllIdle => /\ stats.sets = Tally("sets")
               /\ stats.hits + stats.misses = Tally("gets")
               /\ stats.deletes = Tally("removed")

-----------------------------------------------------------------------------
\* C15: when two callers have each resolved the same text once and both missed the
\* cache and computed a Solution, the cache holds exactly one entry under the
\* scenario's key, and its value is the Solution of the caller whose store into
\* the cache came last.
BothMissed ==
    \A c \in Callers :
        /\ threads[c].pc = "idle"
        /\ threads[c].calls = 1
        /\ threads[c].tally.solved = 1
        /\ threads[c].tally.solved_hits = 0

EntriesUnder(key) == {i \in DOMAIN cache : cache[i].k = key}

C15_LaterSetWins ==
    BothMissed =>
        /\ Cardinality({c \in Callers : threads[c].latest}) = 1
        /\ \A c \in Callers :
              threads[c].latest =>
                  LET key == threads[c].written[1].key
                  IN /\ \A text \in RaceTexts : key = ScenarioKey(CreateScenario(text))
                     /\ Cardinality(EntriesUnder(key)) = 1
                     /\ DictGet(cache, key) = SerializeValue(ToDict(threads[c].ret))

\* both callers missed at the same time, computed different Solutions, and the
\* entry holds the one stored last
C15_Witness ==
    /\ BothMissed
    /\ now = 0
    /\ threads[1].ret # threads[2].ret
    /\ threads[1].latest
    /\ DeserializeValue(DictGet(cache, threads[1].written[1].key)) = ToDict(threads[1].ret)
    /\ stats.misses = 2
    /\ stats.sets = 2

-----------------------------------------------------------------------------
\* C16: with simultaneous callers of solve_disruption, once all have returned,
\* total_scenarios is the number of calls that returned a Solution and cache_hits
\* the number of them that returned it with cache_hit true.
C16_MetricsCountCompletedCalls ==
    AllIdle => /\ performance_metrics.total_scenarios = Tally("solved")
               /\ performance_metrics.cache_hits = Tally("solved_hits")

-----------------------------------------------------------------------------
\* C29: exists(key) answers True exactly when key is stored and not past its
\* expiry; an expired entry it meets leaves the three maps and counts one delete;
\* hits, misses and every other entry stay as they were.
ExistsStep(key) ==
    /\ last'.op = "exists"
    /\ last'.arg = [key |-> key]
    /\ CacheCall("exists", [key |-> key], CacheExists(CM, key, now))

SameEntry(key) ==
    IF key \in DictKeys(cache)
    THEN /\ key \in DictKeys(cache')
         /\ DictGet(cache', key) = DictGet(cache, key)
         /\ expiry_times'[key] = expiry_times[key]
         /\ access_times'[key] = access_times[key]
    ELSE key \notin DictKeys(cache')

C29_ExistsAnswersAndEvicts ==
    [][\A key \in PrimaryKeys :
        ExistsStep(key)
        => /\ last'.ret = PyBool(Stored(key) /\ ~PastExpiry(key))
           /\ IF PastExpiry(key)
              THEN /\ key \notin DictKeys(cache')
                   /\ key \notin DOMAIN expiry_times'
                   /\ key \notin DOMAIN access_times'
                   /\ stats'.deletes = stats.deletes + 1
              ELSE /\ SameEntry(key)
                   /\ stats'.deletes = stats.deletes
           /\ stats'.hits = stats.hits
           /\ stats'.misses = stats.misses
           /\ stats'.sets = stats.sets
           /\ \A other \in PrimaryKeys \ {key} : SameEntry(other)]_vars

\* exists has just evicted an expired entry and left another entry stored
C29_Witness ==
    /\ last.op = "exists"
    /\ last.ret = PyBool(FALSE)
    /\ last.pre.size = 2
    /\ Len(cache) = 1
    /\ stats.deletes = last.pre.stats.deletes + 1
    /\ stats.misses = last.pre.stats.misses

-----------------------------------------------------------------------------
\* C30, as stated: delete_by_tag(t) removes every stored primary entry whose
\* stored shadow entry lists t, and that shadow entry; it returns the number of
\* primary entries removed; every other entry stays stored with its value and
\* expiry.
DeleteByTagStep(tag) ==
    /\ last'.op = "delete_by_tag"
    /\ last'.arg = [tag |-> tag]
    /\ CacheCall("delete_by_tag", [tag |-> tag], CacheDeleteByTag(CM, tag, now))

\* the shadow entry of a stored primary key is stored and lists the tag
ShadowLists(key, tag) ==
    /\ Stored(key)
    /\ Stored(TagKey(key))
    /\ PyIn(tag, DeserializeValue(DictGet(cache, TagKey(key))))

Gone(key) ==
    /\ key \notin DictKeys(cache')
    /\ key \notin DOMAIN expiry_times'
    /\ key \notin DOMAIN access_times'

\* the entry under key, if there is one, stays with its value and its expiry
Kept(key) ==
    IF key \in DictKeys(cache)
    THEN /\ key \in DictKeys(cache')
         /\ DictGet(cache', key) = DictGet(cache, key)
         /\ expiry_times'[key] = expiry_times[key]
    ELSE key \notin DictKeys(cache')

C30_DeleteByTagRemovesTagged ==
    [][\A tag \in Tags :
        DeleteByTagStep(tag)
        => /\ last'.ret = PyInt(Cardinality({key \in PrimaryKeys : ShadowLists(key, tag)}))
           /\ \A key \in PrimaryKeys :
                 IF ShadowLists(key, tag)
                 THEN Gone(key) /\ Gone(TagKey(key))
                 ELSE Kept(key) /\ Kept(TagKey(key))]_vars

\* C30, amended: the shadow entries that count are those not past their expiry. A
\* shadow entry past its expiry that the scan meets is evicted, and its primary
\* entry stays stored and is not counted.
LiveShadowLists(key, tag) == ShadowLists(key, tag) /\ ~PastExpiry(TagKey(key))

ExpiredShadowMet(key) == Stored(key) /\ PastExpiry(TagKey(key))

C30_DeleteByTagRemovesLiveTagged ==
    [][\A tag \in Tags :
        DeleteByTagStep(tag)
        => /\ last'.ret = PyInt(Cardinality({key \in PrimaryKeys : LiveShadowLists(key, tag)}))
           /\ \A key \in PrimaryKeys :
                 IF LiveShadowLists(key, tag)
                 THEN Gone(key) /\ Gone(TagKey(key))
                 ELSE /\ Kept(key)
                      /\ IF ExpiredShadowMet(key) THEN Gone(TagKey(key))
                         ELSE Kept(TagKey(key))]_vars

\* delete_by_tag has just removed one tagged entry with its shadow entry and left
\* an entry with another tag and its shadow entry stored
C30_Witness ==
    /\ last.op = "delete_by_tag"
    /\ last.arg.tag = "t2"
    /\ last.ret = PyInt(1)
    /\ last.pre.size = 4
    /\ Len(cache) = 2
    /\ \E key \in PrimaryKeys :
          /\ Stored(key)
          /\ Stored(TagKey(key))
          /\ ~PyIn("t2", DeserializeValue(DictGet(cache, TagKey(key))))

-----------------------------------------------------------------------------
\* C24: a solve_disruption call that returns a Solution raises total_scenarios by
\* one, raises cache_hits by one exactly when the Solution has cache_hit true, and
\* adds the Solution's predicted_profit to total_profit_generated; in every
\* reachable state cache_hits <= total_scenarios, and total_profit_generated
\* never goes down.
SolveReturned ==
    /\ last'.op = "solve_disruption"
    /\ last'.ret.type = "Solution"
    /\ \E text \in ScenarioTexts : SolveDisruption({text}, {"none"})

C24_EachSolveCountedOnce ==
    /\ [][SolveReturned
          => /\ performance_metrics'.total_scenarios
                  = performance_metrics.total_scenarios + 1
             /\ performance_metrics'.cache_hits
                  = performance_metrics.cache_hits
                      + (IF last'.ret.cache_hit THEN 1 ELSE 0)
             /\ performance_metrics'.total_profit_generated
                  = performance_metrics.total_profit_generated
                      + last'.ret.predicted_profit]_vars
    /\ [](performance_metrics.cache_hits <= performance_metrics.total_scenarios)
    /\ [][performance_metrics'.total_profit_generated
            >= performance_metrics.total_profit_generated]_vars

\* a miss and then a hit of the same text have been counted
C24_Witness ==
    /\ last.op = "solve_disruption"
    /\ last.ret.type = "Solution"
    /\ last.ret.cache_hit
    /\ performance_metrics.total_scenarios = 2
    /\ performance_metrics.cache_hits = 1
    /\ performance_metrics.total_profit_generated = 2 * last.ret.predicted_profit
    /\ last.ret.predicted_profit > 0

-----------------------------------------------------------------------------
\* C25: after the n-th resolution accuracy_rate is 0.85 + min(0.15, 0.001 n), here
\* in thousandths; from one resolution to the next it never goes down, and it
\* never exceeds 1.0.
C25_AccuracyRisesToOne ==
    /\ [](performance_metrics.total_scenarios >= 1
          => performance_metrics.accuracy_rate
               = 850 + (IF performance_metrics.total_scenarios <= 150
                        THEN performance_metrics.total_scenarios ELSE 150))
    /\ [][performance_metrics'.accuracy_rate >= performance_metrics.accuracy_rate]_vars
    /\ [](performance_metrics.accuracy_rate <= 1000)

\* the resolution after the one that reached 1.0
C25_Witness ==
    /\ last.op = "update_metrics"
    /\ performance_metrics.total_scenarios = 151
    /\ performance_metrics.accuracy_rate = 1000
    /\ performance_metrics.cache_hits = 1

-----------------------------------------------------------------------------
\* C27: every Solution solve_disruption returns, computed with the reasoning
\* client answering, failing or absent, or rebuilt from the cache, carries two
\* or three interactive options.
C27_TwoOrThreeOptions ==
    (last.op = "solve_disruption" /\ last.ret.type = "Solution")
    => Len(last.ret.interactive_options) \in {2, 3}

\* a hit that brings back the three options the client gave on the miss
C27_Witness ==
    /\ last.op = "solve_disruption"
    /\ last.ret.type = "Solution"
    /\ last.ret.cache_hit
    /\ Len(last.ret.interactive_options) = 3
    /\ last.ret.reasoning = "generated explanation"

-----------------------------------------------------------------------------
\* C21, as stated: the operational cost is the base cost plus the sum of the
\* fees of the candidate's actions, all multiplied by max(1, affected units);
\* action kinds outside the fee table add nothing.
ActionsOf(solution) == IF "actions" \in DOMAIN solution THEN solution.actions ELSE <<>>

\* the fees of the actions, kind by kind: fee times number of occurrences
FeeSum(actions) ==
    Sum([kind \in DOMAIN ActionCosts |->
            ActionCosts[kind] * Cardinality({i \in DOMAIN actions : actions[i] = kind})],
        DOMAIN ActionCosts)

AtLeastOne(n) == IF n >= 1 THEN n ELSE 1

C21_CostIsBasePlusFeesAllScaled ==
    last.op = "calculate_operational_costs"
    => last.ret = PyInt((10 + FeeSum(ActionsOf(last.arg.solution)))
                            * AtLeastOne(last.arg.affected_deliveries))

\* C21, amended: the operational cost is the base cost plus max(1, affected units)
\* times the sum of the fees of the candidate's actions; the base cost is not
\* multiplied; action kinds outside the fee table add nothing.
C21_CostIsBasePlusScaledFees ==
    last.op = "calculate_operational_costs"
    => last.ret = PyInt(10 + FeeSum(ActionsOf(last.arg.solution))
                                * AtLeastOne(last.arg.affected_deliveries))

\* the premium customer candidate for five deliveries: 10 + 48 * 5
C21_Witness ==
    /\ last.op = "calculate_operational_costs"
    /\ last.arg.solution.approach = "premium_customer"
    /\ last.arg.affected_deliveries = 5
    /\ last.ret = PyInt(250)

-----------------------------------------------------------------------------
\* C23: for a fixed candidate the operational cost does not go down when the
\* number of affected units goes up, and the counts 0 and 1 cost the same.
C23_CostMonotoneInUnits ==
    last.op = "calculate_operational_costs"
    => /\ \A a \in 0..last.arg.affected_deliveries :
            CalculateOperationalCosts(last.arg.solution, a) <= last.ret.n
       /\ CalculateOperationalCosts(last.arg.solution, 0)
            = CalculateOperationalCosts(last.arg.solution, 1)

\* a candidate with fees costs more for five units than for one
C23_Witness ==
    /\ last.op = "calculate_operational_costs"
    /\ last.arg.affected_deliveries = 5
    /\ CalculateOperationalCosts(last.arg.solution, 1) < last.ret.n
    /\ CalculateOperationalCosts(last.arg.solution, 0) = 10 + FeeSum(last.arg.solution.actions)

-----------------------------------------------------------------------------
\* C26: for every text the estimated number of affected units is at least 1; it
\* is the first integer literal of the text when there is one, and otherwise 1
\* for a text with a singular keyword and no multi-unit keyword, and a value of
\* the range 3..7 or 1..3.
C26_UnitsPositiveFirstLiteral ==
    last.op = "estimate_affected_deliveries"
    => LET text == last.arg.text
           numbers == FindallDigits(text)
           k == KeywordsIn(text)
           multi == k \cap {"major", "highway", "multiple"} # {}
           singular == k \cap {"single", "one", "individual"} # {}
       IN /\ last.ret.n >= 1
          /\ numbers # <<>> => last.ret.n = IntOf(numbers[1])
          /\ (numbers = <<>> /\ multi) => last.ret.n \in 3..7
          /\ (numbers = <<>> /\ ~multi /\ singular) => last.ret.n = 1
          /\ (numbers = <<>> /\ ~multi /\ ~singular) => last.ret.n \in 1..3

-----------------------------------------------------------------------------
\* C22, as stated: roi_percentage is (total_profit - total_cost) /
\* max(total_cost, 1) when total_cost is positive and total_profit otherwise,
\* with total_profit = immediate_profit + long_term_profit and total_cost =
\* operational_costs. Ratios are in thousandths, rounded down.
ProfitAndCostAddUp(analysis) ==
    /\ analysis.total_profit = analysis.immediate_profit + analysis.long_term_profit
    /\ analysis.total_cost = analysis.operational_costs

\* q is numerator / denominator in thousandths, rounded down
IsRatio(q, numerator, denominator) ==
    /\ q * denominator <= 1000 * numerator
    /\ 1000 * numerator < (q + 1) * denominator

\* q is the ratio the ROI formula gives for the analysis
IsRoiOf(q, analysis) ==
    IF analysis.total_cost > 0
    THEN IsRatio(q, analysis.total_profit - analysis.total_cost,
                 IF analysis.total_cost > 365 THEN analysis.total_cost ELSE 365)
    ELSE IsRatio(q, analysis.total_profit, 365)

C22_RoiPercentageIsRatio ==
    last.op = "calculate_roi"
    => /\ ProfitAndCostAddUp(last.ret.d)
       /\ IsRoiOf(last.ret.d.roi_percentage, last.ret.d)

\* C22, amended: roi_percentage is 100 times that ratio; total_cost is at least
\* the base cost, so the case of a total_cost that is not positive does not occur.
C22_RoiPercentageIsHundredTimesRatio ==
    last.op = "calculate_roi"
    => /\ ProfitAndCostAddUp(last.ret.d)
       /\ last.ret.d.total_cost >= 365 * 10
       /\ last.ret.d.roi_percentage % 100 = 0
       /\ IsRoiOf(last.ret.d.roi_percentage \div 100, last.ret.d)

\* the premium customer candidate, one delivery, the lowest customer and brand
\* values: profit 120 + 1800/365 + 600/365, cost 58, ROI 118.2 percent
C22_Witness ==
    /\ last.op = "calculate_roi"
    /\ last.arg.solution.approach = "premium_customer"
    /\ last.arg.affected_deliveries = 1
    /\ last.ret.d.total_profit = 365 * 120 + 1800 + 600
    /\ last.ret.d.total_cost = 365 * 58
    /\ last.ret.d.roi_percentage = 118200

-----------------------------------------------------------------------------
\* C28: the text "Major accident on Highway 1 affects 5 active deliveries" gives
\* a scenario of type traffic_disruption with 5 affected units; at least three
\* candidates are generated for it, and the selected one is proactive_rerouting
\* or fleet_optimization, never the standard baseline. (That the next call with
\* the same text is a cache hit is C1.)
HighwayAccident == "Major accident on Highway 1 affects 5 active deliveries"

HighwayAccidentOptimized ==
    (last.op = "optimize" /\ last.arg.text = HighwayAccident)
    => /\ Len(GenerateSolutionCandidates(ClassifyScenario(last.arg.text), last.arg.u)) >= 3
       /\ last.ret.d.approach \in {"proactive_rerouting", "fleet_optimization"}

C28_HighwayAccidentEndToEnd ==
    /\ (last.op = "create_scenario" /\ last.arg.text = HighwayAccident)
       => /\ last.ret.scenario.scenario_type = "traffic_disruption"
          /\ last.ret.scenario.affected_deliveries = 5
    /\ HighwayAccidentOptimized

(* C31: in a pass of continuous_prediction whose problem ids are all        *)
(* different a failure stays with its delivery: every delivery whose own    *)
(* prediction does not fail has a cached entry for each of its problems of  *)
(* probability above 0.3, whatever happened to the deliveries before it.    *)

ContinuousPredictionStep == last'.op = "continuous_prediction" /\ ContinuousPredictionCall

Cached(engine, problem) ==
    \E cache_key \in DOMAIN engine.prediction_cache :
        LET entry == engine.prediction_cache[cache_key]
        IN /\ entry.problem.problem_type = problem.problem_type
           /\ entry.problem.probability = problem.probability
           /\ entry.problem.affected_area = problem.affected_area
           /\ entry.solution = PrecomputeSolution(problem, 0)
              \/ entry.solution = PrecomputeSolution(problem, 1)

PredictionFails(draw) == draw.weather.type = "raise"

Distinct(ids) == \A j, k \in DOMAIN ids : ids[j] = ids[k] => j = k

C31_FailedPredictionIsIsolated ==
    [][(ContinuousPredictionStep /\ Distinct(last'.arg.ids)) =>
        LET draws == last'.arg.draws
            active_deliveries == GetActiveDeliveries(draws)
        IN \A i \in DOMAIN draws :
            ~PredictionFails(draws[i]) =>
                LET problems == PredictProblemsForDelivery(active_deliveries[i], draws[i],
                                                           last'.arg.ids, now)
                IN \A k \in DOMAIN problems.items :
                    problems.items[k].probability > 30000
                        => Cached(prediction_engine', problems.items[k])]_vars

(* C32: the payback period is the infinity value when the monthly           *)
(* long-term profit is not positive, and otherwise the smaller of           *)
(* total_cost / (monthly_profit / 30) and 365 days; a finite payback period *)
(* is never above 365 days. The same holds of the payback_period_days of    *)
(* every ROI analysis, for its total_cost and long_term_profit.             *)

\* days, in hundredths rounded down, is min(total_cost / (monthly_profit / 30), 365)
IsPaybackOf(days, total_cost, monthly_profit) ==
    IF monthly_profit <= 0 THEN days = PyInf
    ELSE /\ ~days.inf
         /\ days.hundredths <= 36500
         /\ IF total_cost * 3000 >= 36500 * monthly_profit
            THEN days.hundredths = 36500
            ELSE /\ days.hundredths * monthly_profit <= total_cost * 3000
                 /\ total_cost * 3000 < (days.hundredths + 1) * monthly_profit

C32_PaybackIsCappedOrInfinite ==
    /\ last.op = "calculate_payback_period"
          => IsPaybackOf(last.ret, last.arg.total_cost, last.arg.monthly_profit)
    /\ last.op = "calculate_roi"
          => IsPaybackOf(last.ret.d.payback_period_days, last.ret.d.total_cost,
                         last.ret.d.long_term_profit)

C32_Witness ==
    /\ last.op = "calculate_payback_period"
    /\ last.arg = [total_cost |-> Dollars(58), monthly_profit |-> 600]
    /\ last.ret = PyDays(36500)

C32_WitnessInfinite ==
    /\ last.op = "calculate_roi"
    /\ last.ret.d.long_term_profit = 0
    /\ last.ret.d.payback_period_days = PyInf

(* C33: the classifier gives each description of the demo catalogue the     *)
(* scenario type the catalogue declares for it.                             *)

C33_DemoScenariosClassifiedAsDeclared ==
    \A i \in DOMAIN DemoScenarios :
        (last.op = "classify_scenario" /\ last.arg.text = DemoScenarios[i].description)
            => last.ret = PyStr(DemoScenarios[i].type)

(* C34: the value map, the expiry map and the access-time map always have   *)
(* the same set of keys.                                                    *)

C34_ThreeMapsShareKeys ==
    /\ DictKeys(cache) = DOMAIN expiry_times
    /\ DictKeys(cache) = DOMAIN access_times

C34_Witness ==
    /\ last.op = "expire"
    /\ last.ret = PyBool(TRUE)
    /\ last.pre.stats.deletes > 0
    /\ DictKeys(cache) = {MapKey, TagKey(MapKey)}
    /\ DOMAIN expiry_times = {MapKey, TagKey(MapKey)}
    /\ DOMAIN access_times = {MapKey, TagKey(MapKey)}

(* C35: expire and ttl treat an entry whose expiry time has passed as        *)
(* absent, evicted or not: expire returns False and leaves the expiry as it  *)
(* is, ttl returns -2; so after any step other than a set of the key, a get  *)
(* of the key still returns None.                                            *)

ExpireStep(key) == last'.op = "expire" /\ last'.arg.key = key /\ Expire({key})

TtlStep(key) == last'.op = "ttl" /\ last'.arg.key = key /\ Ttl({key})

SetsKey(key) == last'.op \in {"set", "set_with_tags"} /\ last'.arg.key = key

C35_ExpiredEntryIsAbsent ==
    [][\A key \in PrimaryKeys :
        PastExpiry(key)
        => /\ ExpireStep(key) => (last'.ret = PyBool(FALSE) /\ UNCHANGED expiry_times)
           /\ TtlStep(key) => last'.ret = PyInt(-2)
           /\ ~SetsKey(key) => CacheGet(CM', key, now').ret = PyNone]_vars

(* C36: a get that hits changes the access time of its key and the hits      *)
(* counter and nothing else: every stored value and every expiry time stay.  *)
(* A solve_disruption that hits performs no set. So the expiry of a cached   *)
(* Solution is one hour after the miss that stored it, however often it is   *)
(* read, and no read at a later time hits.                                   *)

GetHit(key) ==
    /\ last'.op = "get"
    /\ last'.arg = [key |-> key]
    /\ last'.ret # PyNone
    /\ Probe({key})

SolveHit(text) ==
    /\ last'.op = "solve_disruption"
    /\ last'.ret.type = "Solution"
    /\ last'.ret.cache_hit
    /\ SolveDisruption({text}, {"none"})

SolveMiss(text) ==
    /\ last'.op = "solve_disruption"
    /\ last'.ret.type = "Solution"
    /\ ~last'.ret.cache_hit
    /\ SolveDisruption({text}, {"none"})

OnlyHitCounted(key) ==
    /\ UNCHANGED <<cache, expiry_times>>
    /\ access_times' = MapSet(access_times, key, now)
    /\ stats' = [stats EXCEPT !.hits = @ + 1]

C36_ReadsDoNotExtendLifetime ==
    [][\A text \in ScenarioTexts :
        LET key == ScenarioKey(CreateScenario(text))
        IN /\ GetHit(key) => OnlyHitCounted(key)
           /\ SolveHit(text) => (OnlyHitCounted(key) /\ now <= expiry_times[key][1])
           /\ SolveMiss(text) => expiry_times'[key] = ExpiresAt(now + SolutionTTL)
           /\ (Stored(key) /\ key \in DictKeys(cache') /\ ~SolveMiss(text))
                => expiry_times'[key] = expiry_times[key]]_vars

\* a cached Solution read twice, by a solve_disruption and by a get, the second
\* time in the last second of its hour
C36_Witness ==
    /\ last.op = "get"
    /\ last.ret # PyNone
    /\ returned # <<>>
    /\ performance_metrics.cache_hits = 1
    /\ stats.hits = 2
    /\ now = SolutionTTL
    /\ expiry_times[last.arg.key] = ExpiresAt(SolutionTTL)

\* C37: in a sequential run that reaches the cache only through solve_disruption
\* calls that return normally, and through clear, the counters agree after every
\* call: the cache's hits and misses add up to the agent's total_scenarios, the
\* agent's cache_hits is the cache's hits, and the cache's sets, its misses and the
\* optimizer's total_optimizations are one number.
C37_CountersAgree ==
    /\ stats.hits + stats.misses = performance_metrics.total_scenarios
    /\ performance_metrics.cache_hits = stats.hits
    /\ stats.sets = stats.misses
    /\ stats.misses = profit_metrics.total_optimizations

\* a miss and then a hit on the solution the miss stored
C37_Witness ==
    /\ last.op = "solve_disruption"
    /\ last.ret.type = "Solution"
    /\ last.ret.cache_hit
    /\ stats.hits = 1
    /\ stats.misses = 1
    /\ stats.sets = 1
    /\ profit_metrics.total_optimizations = 1
    /\ performance_metrics.total_scenarios = 2

\* C38: after any sequence of set, set_with_tags, delete, delete_by_tag, clear and
\* evictions of expired entries, a stored shadow entry tags:k has its primary
\* entry k stored as well.
C38_NoOrphanedShadowEntries ==
    \A key \in PrimaryKeys : Stored(TagKey(key)) => Stored(key)

\* C39: for every candidate the generators build and every scenario the
\* operational cost is at least the base cost 10, so total_cost is positive in
\* every evaluation, the branch roi = total_profit for a total_cost that is not
\* positive is never taken, and the ROI is (total_profit - total_cost) /
\* total_cost (reported times 100, in thousandths rounded down).
CostAtLeastBase(analysis) ==
    /\ analysis.operational_costs >= Dollars(BaseCost)
    /\ analysis.total_cost = analysis.operational_costs
    /\ analysis.total_cost > 0

RoiOverTotalCost(analysis) ==
    /\ analysis.roi_percentage % 100 = 0
    /\ IsRatio(analysis.roi_percentage \div 100,
               analysis.total_profit - analysis.total_cost, analysis.total_cost)

C39_ZeroCostBranchNeverTaken ==
    /\ last.op = "calculate_operational_costs" => last.ret.n >= BaseCost
    /\ last.op = "calculate_roi"
       => CostAtLeastBase(last.ret.d) /\ RoiOverTotalCost(last.ret.d)
    /\ last.op = "optimize"
       => CostAtLeastBase(last.ret.d.roi_analysis)
          /\ RoiOverTotalCost(last.ret.d.roi_analysis)

\* the baseline candidate, which has no actions, evaluated for five deliveries:
\* the cost is the base cost itself
C39_Witness ==
    /\ last.op = "calculate_roi"
    /\ "actions" \notin DOMAIN last.arg.solution
    /\ last.arg.affected_deliveries = 5
    /\ last.ret.d.total_cost = Dollars(BaseCost)
    /\ last.ret.d.roi_percentage > 0

=============================================================================
